---- MODULE Spec2Model ----
(***************************************************************************)
(* Model of the chat application controller (src/src/app.rs) together with *)
(* the room cryptography (crypto.rs), the room-code codec and RoomState    *)
(* (room.rs) and the channel message types (types.rs).                     *)
(*                                                                         *)
(* Strings and byte strings are sequences of one-character tokens; a       *)
(* literal that is never taken apart is one token.  Option<T> is a         *)
(* sequence of length 0 (None) or 1 (Some).                                *)
(***************************************************************************)
EXTENDS Integers, Sequences, FiniteSets, TLC

None == <<>>
Some(x) == <<x>>
Unwrap(o) == o[1]

Min(a, b) == IF a <= b THEN a ELSE b
Max(a, b) == IF a >= b THEN a ELSE b

\* ---------------------------------------------------------------- strings
NUL == "NUL"

EndsWith(s, suffix) ==
    /\ Len(suffix) <= Len(s)
    /\ SubSeq(s, Len(s) - Len(suffix) + 1, Len(s)) = suffix

Contains(seq, x) == \E i \in 1..Len(seq) : seq[i] = x

\* Index of the first NUL of s, or 0.
FirstNul(s) ==
    IF \E i \in 1..Len(s) : s[i] = NUL
    THEN CHOOSE i \in 1..Len(s) : s[i] = NUL /\ \A j \in 1..(i - 1) : s[j] # NUL
    ELSE 0

\* str::splitn(n, '\0'): at most n parts, the last part keeps the rest.
RECURSIVE Splitn(_, _)
Splitn(n, s) ==
    IF n <= 1 \/ FirstNul(s) = 0
    THEN << s >>
    ELSE << SubSeq(s, 1, FirstNul(s) - 1) >>
           \o Splitn(n - 1, SubSeq(s, FirstNul(s) + 1, Len(s)))

\* ---------------------------------------------------------------- crypto.rs
NONCE_LEN == 12
SALT_LEN == 16
TAG_LEN == 16
VERIFY_MAGIC == "chatapp-v1-verification"

\* Nonces drawn by OsRng in encrypt.
MaxNonce == 0
Nonces == 0..MaxNonce

\* Salt = room name bytes, truncated / zero-padded to SALT_LEN.
Salt(room_name) ==
    [i \in 1..SALT_LEN |-> IF i <= Len(room_name) THEN room_name[i] ELSE NUL]

\* Mutant: the salt does not depend on the room name.
derive_unsalted(password, room_name) == [pw |-> password, salt |-> Salt(<<>>)]

\* Argon2id as an injective function of (password, salt).
derive(password, room_name) == [pw |-> password, salt |-> Salt(room_name)]

\* Byte strings handed to encrypt / returned by decrypt: the bytes of a
\* string (fmt "text"), of a serialized WireMessage (fmt "json"), or
\* anything else (fmt "garbage").
TextBytes(s) == [fmt |-> "text", text |-> s, wire |-> None]
JsonBytes(w) == [fmt |-> "json", text |-> <<>>, wire |-> Some(w)]
Garbage == [fmt |-> "garbage", text |-> <<>>, wire |-> None]

\* Number of bytes of a byte string: one byte per character of a text, and
\* the least a JSON object ("{}") or any other non-empty byte string can have.
ByteLen(bytes) ==
    IF bytes.fmt = "text" THEN Len(bytes.text)
    ELSE IF bytes.fmt = "json" THEN 2
    ELSE 1

\* nonce(12) ++ ciphertext+tag; len is the length of the frame in bytes (the
\* ciphertext of AES-GCM is as long as the plaintext).
encrypt(key, plaintext, nonce) ==
    [nonce |-> nonce, key |-> key, pt |-> plaintext,
     len |-> NONCE_LEN + ByteLen(plaintext) + TAG_LEN]

\* A byte string of n < NONCE_LEN + TAG_LEN bytes (no frame at all).
Noise(n) ==
    [nonce |-> 0, key |-> derive(<<>>, <<>>), pt |-> Garbage, len |-> n]

Ok(v) == [ok |-> TRUE, val |-> v]
Err == [ok |-> FALSE, val |-> Garbage]

\* Mutant: a frame that holds no ciphertext besides the tag is too short.
decrypt_needs_payload(key, data) ==
    IF data.len <= NONCE_LEN + TAG_LEN THEN Err
    ELSE IF data.key = key THEN Ok(data.pt)
    ELSE Err

\* Mutant: the tag is not checked, a frame opens under any key.
decrypt_any_key(key, data) ==
    IF data.len < NONCE_LEN + TAG_LEN THEN Err
    ELSE Ok(data.pt)

\* AES-256-GCM: the tag verifies only under the key that sealed the frame.
decrypt(key, data) ==
    IF data.len < NONCE_LEN + TAG_LEN THEN Err
    ELSE IF data.key = key THEN Ok(data.pt)
    ELSE Err

VerifyPlain(room_name) == TextBytes(<<VERIFY_MAGIC, "::">> \o room_name)

\* Mutant: the token does not name the room.
make_verification_token_unnamed(key, room_name, nonce) ==
    encrypt(key, VerifyPlain(<<>>), nonce)

make_verification_token(key, room_name, nonce) ==
    encrypt(key, VerifyPlain(room_name), nonce)

\* Mutant: any token that opens under the key is accepted.
verify_token_any_room(key, token, room_name) ==
    decrypt(key, token).ok

verify_token(key, token, room_name) ==
    LET r == decrypt(key, token)
    IN  IF r.ok THEN r.val = VerifyPlain(room_name) ELSE FALSE

\* ---------------------------------------------------------------- room.rs
TOPIC_PREFIX == "/chatapp/v1/rooms/"

topic_for_room(room_name) == <<TOPIC_PREFIX>> \o room_name

RoomState_new(name) ==
    [name |-> name, topic |-> topic_for_room(name), peer_count |-> 0]

\* Base58 is a bijection between byte strings and codes; a code that is not
\* Base58 (or not UTF-8 once decoded) has b58 = FALSE.
Base58(raw) == [b58 |-> TRUE, raw |-> raw]
NotBase58 == [b58 |-> FALSE, raw |-> <<>>]

RoomCodeData(room_name, peer_id, addr) ==
    [room_name |-> room_name, peer_id |-> peer_id, addr |-> addr]

\* Mutant: an empty addr is left out together with its separator.
encode_short(d) ==
    Base58(d.room_name \o <<NUL>> \o d.peer_id
             \o (IF d.addr = <<>> THEN <<>> ELSE <<NUL>> \o d.addr))

encode(d) == Base58(d.room_name \o <<NUL>> \o d.peer_id \o <<NUL>> \o d.addr)

decode(code) ==
    IF ~code.b58 THEN [ok |-> FALSE, val |-> RoomCodeData(<<>>, <<>>, <<>>)]
    ELSE LET parts == Splitn(3, code.raw)
         IN  IF Len(parts) # 3
             THEN [ok |-> FALSE, val |-> RoomCodeData(<<>>, <<>>, <<>>)]
             ELSE [ok |-> TRUE,
                   val |-> RoomCodeData(parts[1], parts[2], parts[3])]

\* ---------------------------------------------------------------- types.rs
\* WireMessage.text is a String: ordinary text, or the JSON array of the
\* bytes of a verification token (serde_json::to_string(&Vec<u8>)).
StrText(s) == [fmt |-> "str", str |-> s, token |-> None]
TokenText(token) == [fmt |-> "bytes", str |-> <<>>, token |-> Some(token)]

WireMessage(msg_type, nick, disc, text) ==
    [msg_type |-> msg_type, sender_nick |-> nick, sender_disc |-> disc,
     timestamp_ms |-> 0, text |-> text]

WireMessageType == {"Chat", "VerificationToken"}

\* serde_json::to_vec(&wire)
to_vec(wire) == JsonBytes(wire)

\* Mutant: a WireMessage of any msg_type is accepted.
from_slice_any_type(bytes) ==
    IF bytes.fmt = "json"
    THEN [ok |-> TRUE, val |-> bytes.wire]
    ELSE [ok |-> FALSE, val |-> None]

\* serde_json::from_slice::<WireMessage>: fails on bytes that are not the
\* JSON of a WireMessage and on an unknown msg_type.
from_slice(bytes) ==
    IF bytes.fmt = "json" /\ Unwrap(bytes.wire).msg_type \in WireMessageType
    THEN [ok |-> TRUE, val |-> bytes.wire]
    ELSE [ok |-> FALSE, val |-> None]

\* serde_json::from_str::<Vec<u8>>(&wire.text).unwrap_or_default()
token_from_text(text) ==
    IF text.fmt = "bytes" THEN Unwrap(text.token) ELSE Noise(0)

DisplayMessage_chat(sender, text) ==
    [sender |-> sender, text |-> text, is_system |-> FALSE]
DisplayMessage_system(s) ==
    [sender |-> <<>>, text |-> StrText(s), is_system |-> TRUE]

\* NetworkCommand
Subscribe(topic) == [cmd |-> "Subscribe", topic |-> topic]
Unsubscribe(topic) == [cmd |-> "Unsubscribe", topic |-> topic]
Publish(topic, data) == [cmd |-> "Publish", topic |-> topic, data |-> data]
Dial(addr) == [cmd |-> "Dial", addr |-> addr]
QueryListenAddrs == [cmd |-> "QueryListenAddrs"]

\* NetworkEvent
NetworkEvent_MessageReceived(topic, payload) ==
    [ev |-> "MessageReceived", topic |-> topic, payload |-> payload]
NetworkEvent_PeerSubscribed(topic, peer_id) ==
    [ev |-> "PeerSubscribed", topic |-> topic, peer_id |-> peer_id]
NetworkEvent_PeerDisconnected(peer_id) ==
    [ev |-> "PeerDisconnected", peer_id |-> peer_id]

\* CliCommand
CliCommand_Quit == [cmd |-> "Quit"]
CliCommand_SendMessage(text) == [cmd |-> "SendMessage", text |-> text]
CliCommand_CreateRoom(name, password) ==
    [cmd |-> "CreateRoom", name |-> name, password |-> password]
CliCommand_JoinRoom(code, password) ==
    [cmd |-> "JoinRoom", code |-> code, password |-> password]
CliCommand_LeaveRoom == [cmd |-> "LeaveRoom"]
CliCommand_ListPeers == [cmd |-> "ListPeers"]
CliCommand_Help == [cmd |-> "Help"]

\* UiEvent
NewMessage(msg) == [ev |-> "NewMessage", msg |-> msg]
StatusUpdate(room, peers) == [ev |-> "StatusUpdate", room |-> room, peers |-> peers]
ShowMainMenu == [ev |-> "ShowMainMenu"]
RoomCreated(name, code) == [ev |-> "RoomCreated", name |-> name, code |-> code]
RoomJoined(name) == [ev |-> "RoomJoined", name |-> name]
AccessDenied == [ev |-> "AccessDenied"]
Error(text) == [ev |-> "Error", error |-> text]

\* ---------------------------------------------------------------- identity.rs
\* The identity is created once at startup and never changes.
identity ==
    [peer_id |-> <<"P", "0">>, nickname |-> <<"n">>, discriminator |-> <<"0">>]

display_name(id) == id.nickname \o <<"#">> \o id.discriminator

\* ---------------------------------------------------------------- app.rs
\* Time is counted in milliseconds; the clock moves in steps of Quantum.
TickMillis == 500
VerifyMillis == 5000
Quantum == TickMillis \div 2

VARIABLES
    room,            \* App.room: Option<RoomState>
    room_key,        \* App.room_key: Option<RoomKey>
    logger,          \* App.logger: Some(room name of the open log) or None
    peers,           \* App.peers: display name -> display name
    listen_addrs,    \* App.listen_addrs
    pending_verify,  \* App.pending_verify; deadline is kept as the time left
                     \* until the deadline (deadline - Instant::now(), >= 0)
    net_cmds,        \* NetworkCommands the last handler passed to
                     \* net_cmd_tx.send, in order (the send returns Err, and
                     \* the command is lost, once the driver has stopped)
    ui_events,       \* UiEvents sent by the last handler, in order
    sleep,           \* time left until the sleep created by this iteration
                     \* of the loop of run() completes
    running,         \* FALSE once the loop of run() has exited
    last,            \* the select branch taken last
    since_join,      \* stopwatch: time since join_room last set pending_verify
    addr_log,        \* the address reports that added an address, in order
    driver_up,       \* the network driver task runs (net_cmd_rx is alive)
    cli_queue,       \* cli_cmd channel: commands sent by the Interface and
                     \* not yet received by the loop of run()
    peer,            \* a second controller, of the remote participant
    network,         \* the overlay between the two controllers: the room
                     \* code handed over, subscriptions, events in flight
    calc,            \* a call of a function of crypto.rs, room.rs or cli.rs
                     \* on its own: its arguments and, once it has
                     \* returned, its result (None while no call is made)
    net_queue,       \* net_cmd channel: commands sent by the controller and
                     \* not yet received by the network driver
    subscribed,      \* topics the gossipsub of the network driver subscribes to
    interface,       \* the Interface task: the screen and the CliState fields
                     \* of cli_inner, and whether its loop still runs
    ui_queue         \* ui_event channel: events sent by the controller and
                     \* not yet received by the Interface

vars == << room, room_key, logger, peers, listen_addrs, pending_verify,
           net_cmds, ui_events, sleep, running, last, since_join, addr_log,
           driver_up, cli_queue, peer, network, calc,
           net_queue, subscribed, interface, ui_queue >>

\* What lies outside the controller: its channels' other ends.
world == << driver_up, cli_queue, peer, network, calc, net_queue,
           subscribed, interface, ui_queue >>

\* The fields of App a handler reads and writes, with the two outbound
\* channels; handlers are functions from this record to this record.
Ctl ==
    [identity |-> identity,
     room |-> room, room_key |-> room_key, logger |-> logger, peers |-> peers,
     listen_addrs |-> listen_addrs, pending_verify |-> pending_verify,
     net |-> <<>>, ui |-> <<>>]

net_send(st, cmd) == [st EXCEPT !.net = Append(@, cmd)]
ui_send(st, ev) == [st EXCEPT !.ui = Append(@, ev)]

\* Result<()> of a handler: the state it left behind and the error, if any.
Done(st) == [st |-> st, err |-> None, quit |-> FALSE]
Fail(st, msg) == [st |-> st, err |-> Some(msg), quit |-> FALSE]

EmptyMap == [k \in {} |-> <<>>]

emit_status(st) ==
    ui_send(st, StatusUpdate(
        IF st.room # None THEN Some(Unwrap(st.room).name) ELSE None,
        IF st.room # None THEN Unwrap(st.room).peer_count ELSE 0))

\* Mutant: leaving does not clear the peer table.
leave_room_keep_peers(st) ==
    LET s1 == IF st.room # None
              THEN net_send([st EXCEPT !.room = None],
                            Unsubscribe(Unwrap(st.room).topic))
              ELSE st
        s2 == [s1 EXCEPT !.room_key = None, !.logger = None,
                         !.pending_verify = None]
    IN  emit_status(ui_send(s2, ShowMainMenu))

\* Mutant: leaving drops the room but keeps the key.
leave_room_keep_key(st) ==
    LET s1 == IF st.room # None
              THEN net_send([st EXCEPT !.room = None],
                            Unsubscribe(Unwrap(st.room).topic))
              ELSE st
        s2 == [s1 EXCEPT !.logger = None,
                         !.pending_verify = None, !.peers = EmptyMap]
    IN  emit_status(ui_send(s2, ShowMainMenu))

leave_room(st) ==
    LET s1 == IF st.room # None
              THEN net_send([st EXCEPT !.room = None],
                            Unsubscribe(Unwrap(st.room).topic))
              ELSE st
        s2 == [s1 EXCEPT !.room_key = None, !.logger = None,
                         !.pending_verify = None, !.peers = EmptyMap]
    IN  emit_status(ui_send(s2, ShowMainMenu))

\* Mutant: the creator is not counted in peer_count.
create_room_uncounted(st, name, password, kdf_ok, io_ok) ==
    LET s1 == leave_room(st)
        key == derive(password, name)
        topic == topic_for_room(name)
        s2 == net_send(s1, Subscribe(topic))
        addr == IF s2.listen_addrs # <<>> THEN Head(s2.listen_addrs) ELSE <<>>
        code == encode(RoomCodeData(name, st.identity.peer_id, addr))
        s3 == [s2 EXCEPT !.room = Some(RoomState_new(name)),
                         !.room_key = Some(key),
                         !.logger = Some(name)]
    IN  IF ~kdf_ok THEN Fail(s1, <<"kdf error">>)
        ELSE IF ~io_ok THEN Fail(s2, <<"io error">>)
        ELSE Done(emit_status(ui_send(s3, RoomCreated(name, code))))

\* Mutant: the room code carries the password in place of the address.
create_room_leaky(st, name, password, kdf_ok, io_ok) ==
    LET s1 == leave_room(st)
        key == derive(password, name)
        topic == topic_for_room(name)
        s2 == net_send(s1, Subscribe(topic))
        code == encode(RoomCodeData(name, st.identity.peer_id, password))
        s3 == [s2 EXCEPT !.room = Some([RoomState_new(name) EXCEPT !.peer_count = 1]),
                         !.room_key = Some(key),
                         !.logger = Some(name)]
    IN  IF ~kdf_ok THEN Fail(s1, <<"kdf error">>)
        ELSE IF ~io_ok THEN Fail(s2, <<"io error">>)
        ELSE Done(emit_status(ui_send(s3, RoomCreated(name, code))))

\* kdf_ok: RoomKey::derive returns Ok; io_ok: ensure_log_dir and
\* Logger::open both succeed.
create_room(st, name, password, kdf_ok, io_ok) ==
    LET s1 == leave_room(st)
        key == derive(password, name)
        topic == topic_for_room(name)
        s2 == net_send(s1, Subscribe(topic))
        addr == IF s2.listen_addrs # <<>> THEN Head(s2.listen_addrs) ELSE <<>>
        code == encode(RoomCodeData(name, st.identity.peer_id, addr))
        s3 == [s2 EXCEPT !.room = Some([RoomState_new(name) EXCEPT !.peer_count = 1]),
                         !.room_key = Some(key),
                         !.logger = Some(name)]
    IN  IF ~kdf_ok THEN Fail(s1, <<"kdf error">>)
        ELSE IF ~io_ok THEN Fail(s2, <<"io error">>)
        ELSE Done(emit_status(ui_send(s3, RoomCreated(name, code))))

\* Mutant: the creator is dialled whether or not the code has an address.
join_room_always_dial(st, code, password, kdf_ok, io_ok) ==
    LET s1 == leave_room(st)
        dec == decode(code)
        room_name == dec.val.room_name
        key == derive(password, room_name)
        s2 == IF TRUE THEN net_send(s1, Dial(dec.val.addr)) ELSE s1
        s3 == net_send(s2, Subscribe(topic_for_room(room_name)))
        s4 == [s3 EXCEPT !.pending_verify =
                             Some([room_name |-> room_name, room_key |-> key,
                                   deadline |-> VerifyMillis]),
                         !.logger = Some(room_name)]
    IN  IF ~dec.ok THEN Fail(s1, <<"invalid room code">>)
        ELSE IF ~kdf_ok THEN Fail(s1, <<"kdf error">>)
        ELSE IF ~io_ok THEN Fail(s3, <<"io error">>)
        ELSE Done(ui_send(s4, NewMessage(DisplayMessage_system(
                 <<"Connecting to room '">> \o room_name
                     \o <<"' - waiting for verification">>))))

\* Mutant: a code that does not decode is read as the empty room code.
join_room_lenient(st, code, password, kdf_ok, io_ok) ==
    LET s1 == leave_room(st)
        dec == decode(code)
        room_name == dec.val.room_name
        key == derive(password, room_name)
        s2 == IF dec.val.addr # <<>> THEN net_send(s1, Dial(dec.val.addr)) ELSE s1
        s3 == net_send(s2, Subscribe(topic_for_room(room_name)))
        s4 == [s3 EXCEPT !.pending_verify =
                             Some([room_name |-> room_name, room_key |-> key,
                                   deadline |-> VerifyMillis]),
                         !.logger = Some(room_name)]
    IN  IF FALSE THEN Fail(s1, <<"invalid room code">>)
        ELSE IF ~kdf_ok THEN Fail(s1, <<"kdf error">>)
        ELSE IF ~io_ok THEN Fail(s3, <<"io error">>)
        ELSE Done(ui_send(s4, NewMessage(DisplayMessage_system(
                 <<"Connecting to room '">> \o room_name
                     \o <<"' - waiting for verification">>))))

join_room(st, code, password, kdf_ok, io_ok) ==
    LET s1 == leave_room(st)
        dec == decode(code)
        room_name == dec.val.room_name
        key == derive(password, room_name)
        s2 == IF dec.val.addr # <<>> THEN net_send(s1, Dial(dec.val.addr)) ELSE s1
        s3 == net_send(s2, Subscribe(topic_for_room(room_name)))
        s4 == [s3 EXCEPT !.pending_verify =
                             Some([room_name |-> room_name, room_key |-> key,
                                   deadline |-> VerifyMillis]),
                         !.logger = Some(room_name)]
    IN  IF ~dec.ok THEN Fail(s1, <<"invalid room code">>)
        ELSE IF ~kdf_ok THEN Fail(s1, <<"kdf error">>)
        ELSE IF ~io_ok THEN Fail(s3, <<"io error">>)
        ELSE Done(ui_send(s4, NewMessage(DisplayMessage_system(
                 <<"Connecting to room '">> \o room_name
                     \o <<"' - waiting for verification">>))))

\* Mutant: outside a room the message is dropped without a word.
send_message_quiet(st, text, nonce, enc_ok) ==
    IF st.room = None \/ st.room_key = None
    THEN Done(st)
    ELSE LET wire == WireMessage("Chat", st.identity.nickname,
                                 st.identity.discriminator, text)
             encrypted == encrypt(Unwrap(st.room_key), to_vec(wire), nonce)
             s1 == net_send(st, Publish(Unwrap(st.room).topic, encrypted))
             display == DisplayMessage_chat(display_name(st.identity), text)
         IN  IF ~enc_ok THEN Fail(st, <<"encryption error">>)
             ELSE Done(ui_send(s1, NewMessage(display)))

\* Mutant: the message is published but not shown locally.
send_message_silent(st, text, nonce, enc_ok) ==
    IF st.room = None \/ st.room_key = None
    THEN Done(ui_send(st, Error(<<"Not in a room.">>)))
    ELSE LET wire == WireMessage("Chat", st.identity.nickname,
                                 st.identity.discriminator, text)
             encrypted == encrypt(Unwrap(st.room_key), to_vec(wire), nonce)
         IN  IF ~enc_ok THEN Fail(st, <<"encryption error">>)
             ELSE Done(net_send(st, Publish(Unwrap(st.room).topic, encrypted)))

\* enc_ok: serde_json::to_vec and RoomKey::encrypt both return Ok.
send_message(st, text, nonce, enc_ok) ==
    IF st.room = None \/ st.room_key = None
    THEN Done(ui_send(st, Error(<<"Not in a room.">>)))
    ELSE LET wire == WireMessage("Chat", st.identity.nickname,
                                 st.identity.discriminator, text)
             encrypted == encrypt(Unwrap(st.room_key), to_vec(wire), nonce)
             s1 == net_send(st, Publish(Unwrap(st.room).topic, encrypted))
             display == DisplayMessage_chat(display_name(st.identity), text)
         IN  IF ~enc_ok THEN Fail(st, <<"encryption error">>)
             ELSE Done(ui_send(s1, NewMessage(display)))

\* Mutant: the raw token is published without the WireMessage envelope.
wrap_verification_token_raw(st, token, nonce) == token

\* Wrap the verification token in an encrypted WireMessage envelope.
wrap_verification_token(st, token, nonce) ==
    LET wire == WireMessage("VerificationToken", st.identity.nickname,
                            st.identity.discriminator, TokenText(token))
    IN  encrypt(Unwrap(st.room_key), to_vec(wire), nonce)

\* Mutant: the room is installed but the pending key is not promoted.
confirm_join_drop_key(st, room_name) ==
    LET s1 == [st EXCEPT !.pending_verify = None]
        s2 == [s1 EXCEPT !.room = Some(RoomState_new(room_name))]
    IN  emit_status(ui_send(s2, RoomJoined(room_name)))

confirm_join(st, room_name) ==
    LET s1 == IF st.pending_verify # None
              THEN [st EXCEPT !.room_key = Some(Unwrap(st.pending_verify).room_key),
                              !.pending_verify = None]
              ELSE st
        s2 == [s1 EXCEPT !.room = Some(RoomState_new(room_name))]
    IN  emit_status(ui_send(s2, RoomJoined(room_name)))

\* Mutant: the denial leaves PendingVerify in place.
deny_join_keep_pending(st) ==
    LET s2 == IF st.room # None
              THEN net_send([st EXCEPT !.room = None],
                            Unsubscribe(Unwrap(st.room).topic))
              ELSE st
        s3 == [s2 EXCEPT !.logger = None]
    IN  ui_send(ui_send(s3, AccessDenied), ShowMainMenu)

deny_join(st) ==
    LET s1 == [st EXCEPT !.pending_verify = None]
        s2 == IF s1.room # None
              THEN net_send([s1 EXCEPT !.room = None],
                            Unsubscribe(Unwrap(s1.room).topic))
              ELSE s1
        s3 == [s2 EXCEPT !.logger = None]
    IN  ui_send(ui_send(s3, AccessDenied), ShowMainMenu)

\* Mutant: the deadline check fires one tick early.
timed_out_early(st) ==
    IF st.pending_verify # None
    THEN Unwrap(st.pending_verify).deadline <= TickMillis
    ELSE FALSE

\* Instant::now() >= pv.deadline, with deadline kept as the time left.
timed_out(st) ==
    IF st.pending_verify # None
    THEN Unwrap(st.pending_verify).deadline <= 0
    ELSE FALSE

\* Mutant: the timeout installs the room but leaves pending_verify in place.
check_verify_timeout_keep(st) ==
    IF timed_out(st)
    THEN LET pv == Unwrap(st.pending_verify)
             s1 == [st EXCEPT !.room_key = Some(pv.room_key),
                              !.room = Some(RoomState_new(pv.room_name))]
         IN  emit_status(ui_send(s1, RoomJoined(pv.room_name)))
    ELSE st

check_verify_timeout(st) ==
    IF timed_out(st)
    THEN LET pv == Unwrap(st.pending_verify)
             s1 == [st EXCEPT !.pending_verify = None,
                              !.room_key = Some(pv.room_key),
                              !.room = Some(RoomState_new(pv.room_name))]
         IN  emit_status(ui_send(s1, RoomJoined(pv.room_name)))
    ELSE st

\* Mutant: the pending block acts on every WireMessage, whatever its type.
pending_token_any_type(st, payload) ==
    /\ st.pending_verify # None
    /\ decrypt(Unwrap(st.pending_verify).room_key, payload).ok
    /\ from_slice(decrypt(Unwrap(st.pending_verify).room_key, payload).val).ok

\* The pending-verification part of handle_message: TRUE when it ends in
\* confirm_join or deny_join (the early return).
pending_token(st, payload) ==
    /\ st.pending_verify # None
    /\ decrypt(Unwrap(st.pending_verify).room_key, payload).ok
    /\ from_slice(decrypt(Unwrap(st.pending_verify).room_key, payload).val).ok
    /\ Unwrap(from_slice(decrypt(Unwrap(st.pending_verify).room_key,
                                 payload).val).val).msg_type = "VerificationToken"

\* Mutant: a VerificationToken that reaches the active-room part is shown
\* like a chat message.
room_message_token_chat(st, topic, payload) ==
    IF st.room = None \/ st.room_key = None THEN st
    ELSE IF ~EndsWith(topic, Unwrap(st.room).name) THEN st
    ELSE IF ~decrypt(Unwrap(st.room_key), payload).ok THEN st
    ELSE IF ~from_slice(decrypt(Unwrap(st.room_key), payload).val).ok THEN st
    ELSE LET wire == Unwrap(from_slice(decrypt(Unwrap(st.room_key), payload).val).val)
             sender == wire.sender_nick \o <<"#">> \o wire.sender_disc
             s1 == IF sender \in DOMAIN st.peers THEN st
                   ELSE ui_send(
                          [st EXCEPT !.peers =
                              [k \in DOMAIN st.peers \cup {sender} |->
                                  IF k = sender THEN sender ELSE st.peers[k]]],
                          NewMessage(DisplayMessage_system(
                              sender \o <<" joined the room">>)))
         IN  IF wire.sender_nick = st.identity.nickname
                     /\ wire.sender_disc = st.identity.discriminator THEN st
             ELSE ui_send(s1, NewMessage(DisplayMessage_chat(sender, wire.text)))

\* Mutant: every message of a remote sender is announced with a joined
\* message, whether or not the sender is in the peer table.
room_message_announce_always(st, topic, payload) ==
    IF st.room = None \/ st.room_key = None THEN st
    ELSE IF ~EndsWith(topic, Unwrap(st.room).name) THEN st
    ELSE IF ~decrypt(Unwrap(st.room_key), payload).ok THEN st
    ELSE IF ~from_slice(decrypt(Unwrap(st.room_key), payload).val).ok THEN st
    ELSE LET wire == Unwrap(from_slice(decrypt(Unwrap(st.room_key), payload).val).val)
             sender == wire.sender_nick \o <<"#">> \o wire.sender_disc
             s1 == ui_send(
                          [st EXCEPT !.peers =
                              [k \in DOMAIN st.peers \cup {sender} |->
                                  IF k = sender THEN sender ELSE st.peers[k]]],
                          NewMessage(DisplayMessage_system(
                              sender \o <<" joined the room">>)))
         IN  IF wire.msg_type = "VerificationToken" THEN st
             ELSE IF wire.sender_nick = st.identity.nickname
                     /\ wire.sender_disc = st.identity.discriminator THEN st
             ELSE ui_send(s1, NewMessage(DisplayMessage_chat(sender, wire.text)))

\* Mutant: our own messages are shown again when they come back.
room_message_echo(st, topic, payload) ==
    IF st.room = None \/ st.room_key = None THEN st
    ELSE IF ~EndsWith(topic, Unwrap(st.room).name) THEN st
    ELSE IF ~decrypt(Unwrap(st.room_key), payload).ok THEN st
    ELSE IF ~from_slice(decrypt(Unwrap(st.room_key), payload).val).ok THEN st
    ELSE LET wire == Unwrap(from_slice(decrypt(Unwrap(st.room_key), payload).val).val)
             sender == wire.sender_nick \o <<"#">> \o wire.sender_disc
             s1 == IF sender \in DOMAIN st.peers THEN st
                   ELSE ui_send(
                          [st EXCEPT !.peers =
                              [k \in DOMAIN st.peers \cup {sender} |->
                                  IF k = sender THEN sender ELSE st.peers[k]]],
                          NewMessage(DisplayMessage_system(
                              sender \o <<" joined the room">>)))
         IN  IF wire.msg_type = "VerificationToken" THEN st
             ELSE ui_send(s1, NewMessage(DisplayMessage_chat(sender, wire.text)))

\* The part of handle_message for the active room.
room_message(st, topic, payload) ==
    IF st.room = None \/ st.room_key = None THEN st
    ELSE IF ~EndsWith(topic, Unwrap(st.room).name) THEN st
    ELSE IF ~decrypt(Unwrap(st.room_key), payload).ok THEN st
    ELSE IF ~from_slice(decrypt(Unwrap(st.room_key), payload).val).ok THEN st
    ELSE LET wire == Unwrap(from_slice(decrypt(Unwrap(st.room_key), payload).val).val)
             sender == wire.sender_nick \o <<"#">> \o wire.sender_disc
             s1 == IF sender \in DOMAIN st.peers THEN st
                   ELSE ui_send(
                          [st EXCEPT !.peers =
                              [k \in DOMAIN st.peers \cup {sender} |->
                                  IF k = sender THEN sender ELSE st.peers[k]]],
                          NewMessage(DisplayMessage_system(
                              sender \o <<" joined the room">>)))
         IN  IF wire.msg_type = "VerificationToken" THEN st
             ELSE IF wire.sender_nick = st.identity.nickname
                     /\ wire.sender_disc = st.identity.discriminator THEN st
             ELSE ui_send(s1, NewMessage(DisplayMessage_chat(sender, wire.text)))

handle_message(st, topic, payload) ==
    IF pending_token(st, payload)
    THEN LET pv == Unwrap(st.pending_verify)
             wire == Unwrap(from_slice(decrypt(pv.room_key, payload).val).val)
             token == token_from_text(wire.text)
         IN  IF verify_token(pv.room_key, token, pv.room_name)
             THEN confirm_join(st, pv.room_name)
             ELSE deny_join(st)
    ELSE room_message(st, topic, payload)

\* peer_count is a usize; the model stops counting at MaxPeerCount.
MaxPeerCount == 2

\* Mutant: a subscription to any topic is counted.
PeerSubscribed_event_any_topic(st, topic, nonce1, nonce2) ==
    LET s1 == IF st.room # None /\ topic = Unwrap(st.room).topic
                 /\ st.room_key # None
              THEN net_send(st, Publish(topic,
                     wrap_verification_token(st,
                        make_verification_token(Unwrap(st.room_key),
                                                Unwrap(st.room).name, nonce1),
                        nonce2)))
              ELSE st
    IN  IF s1.room # None
        THEN emit_status([s1 EXCEPT !.room =
                 Some([Unwrap(s1.room) EXCEPT !.peer_count = @ + 1])])
        ELSE s1

PeerSubscribed_event(st, topic, nonce1, nonce2) ==
    LET s1 == IF st.room # None /\ topic = Unwrap(st.room).topic
                 /\ st.room_key # None
              THEN net_send(st, Publish(topic,
                     wrap_verification_token(st,
                        make_verification_token(Unwrap(st.room_key),
                                                Unwrap(st.room).name, nonce1),
                        nonce2)))
              ELSE st
    IN  IF s1.room # None /\ topic = Unwrap(s1.room).topic
        THEN emit_status([s1 EXCEPT !.room =
                 Some([Unwrap(s1.room) EXCEPT !.peer_count = @ + 1])])
        ELSE s1

PeerDisconnected_event(st, peer_id) ==
    IF peer_id \in DOMAIN st.peers
    THEN LET name == st.peers[peer_id]
             s1 == [st EXCEPT !.peers = [k \in DOMAIN st.peers \ {peer_id} |-> st.peers[k]]]
             s2 == ui_send(s1, NewMessage(DisplayMessage_system(
                                  name \o <<" disconnected">>)))
             s3 == IF s2.room # None
                   THEN [s2 EXCEPT !.room = Some([Unwrap(s2.room) EXCEPT
                                       !.peer_count = Max(@ - 1, 0)])]
                   ELSE s2
         IN  emit_status(s3)
    ELSE st

ListeningOn_event(st, addr) ==
    IF ~Contains(st.listen_addrs, addr)
    THEN [st EXCEPT !.listen_addrs = Append(@, addr)]
    ELSE st

\* Mutant: an external address is appended like a listen address.
NewExternalAddr_event_back(st, addr) ==
    IF ~Contains(st.listen_addrs, addr)
    THEN [st EXCEPT !.listen_addrs = Append(@, addr)]
    ELSE st

NewExternalAddr_event(st, addr) ==
    IF ~Contains(st.listen_addrs, addr)
    THEN [st EXCEPT !.listen_addrs = <<addr>> \o @]
    ELSE st

\* The values of the peer table joined by ", " in the order the HashMap
\* iterates them.
RECURSIVE Join(_)
Join(names) ==
    IF names = <<>> THEN <<>>
    ELSE IF Len(names) = 1 THEN Head(names)
    ELSE Head(names) \o <<", ">> \o Join(Tail(names))

Orders(map) ==
    {o \in [1..Cardinality(DOMAIN map) -> DOMAIN map] :
        \A i, j \in DOMAIN o : i # j => o[i] # o[j]}

ListPeers_cmd(st, order) ==
    LET list == IF DOMAIN st.peers = {} THEN <<"No peers connected.">>
                ELSE Join([i \in DOMAIN order |-> st.peers[order[i]]])
    IN  ui_send(st, NewMessage(DisplayMessage_system(<<"Peers: ">> \o list)))

Help_cmd(st) ==
    ui_send(ui_send(ui_send(st,
        NewMessage(DisplayMessage_system(<<"/quit   - leave room / exit">>))),
        NewMessage(DisplayMessage_system(<<"/peers  - list connected peers">>))),
        NewMessage(DisplayMessage_system(<<"/help   - show this message">>)))

\* Mutant: Quit is handled like a command that does nothing.
handle_cli_command_ignore_quit(st, c, env) ==
    CASE c.cmd = "SendMessage" ->
            send_message(st, c.text, env.nonce, env.enc_ok)
      [] c.cmd = "CreateRoom" ->
            create_room(st, c.name, c.password, env.kdf_ok, env.io_ok)
      [] c.cmd = "JoinRoom" ->
            join_room(st, c.code, c.password, env.kdf_ok, env.io_ok)
      [] c.cmd = "LeaveRoom" -> Done(leave_room(st))
      [] c.cmd = "ListPeers" -> Done(ListPeers_cmd(st, env.order))
      [] c.cmd = "Help" -> Done(Help_cmd(st))
      [] OTHER -> Done(st)

\* env: what the handler draws from its environment (the nonce, whether the
\* crypto and log calls return Ok, the iteration order of the peer table).
\* quit is the Ok(true) that ends the loop.
handle_cli_command(st, c, env) ==
    CASE c.cmd = "Quit" -> [st |-> st, err |-> None, quit |-> TRUE]
      [] c.cmd = "SendMessage" ->
            send_message(st, c.text, env.nonce, env.enc_ok)
      [] c.cmd = "CreateRoom" ->
            create_room(st, c.name, c.password, env.kdf_ok, env.io_ok)
      [] c.cmd = "JoinRoom" ->
            join_room(st, c.code, c.password, env.kdf_ok, env.io_ok)
      [] c.cmd = "LeaveRoom" -> Done(leave_room(st))
      [] c.cmd = "ListPeers" -> Done(ListPeers_cmd(st, env.order))
      [] c.cmd = "Help" -> Done(Help_cmd(st))

\* The events two controllers exchange; env holds the nonces drawn.
handle_network_event(st, e, env) ==
    CASE e.ev = "MessageReceived" -> handle_message(st, e.topic, e.payload)
      [] e.ev = "PeerSubscribed" ->
            PeerSubscribed_event(st, e.topic, env.nonce1, env.nonce2)
      [] e.ev = "PeerDisconnected" -> PeerDisconnected_event(st, e.peer_id)

\* ---------------------------------------------------------------- network.rs
\* What the overlay does with one command of controller "a" or "b" whose
\* peer id is id: a subscription is announced to the other controller, an
\* unsubscription is reported to it as a disconnect, a publication is
\* delivered to it if it subscribes to the topic.
route1(net, from, id, c) ==
    LET to_other(e) == IF from = "a"
                       THEN [net EXCEPT !.to_b = Append(@, e)]
                       ELSE [net EXCEPT !.to_a = Append(@, e)]
        other_subs == IF from = "a" THEN net.subs_b ELSE net.subs_a
    IN  CASE c.cmd = "Subscribe" ->
                LET n1 == to_other(NetworkEvent_PeerSubscribed(c.topic, id))
                IN  IF from = "a" THEN [n1 EXCEPT !.subs_a = @ \cup {c.topic}]
                    ELSE [n1 EXCEPT !.subs_b = @ \cup {c.topic}]
          [] c.cmd = "Unsubscribe" ->
                LET n1 == to_other(NetworkEvent_PeerDisconnected(id))
                IN  IF from = "a" THEN [n1 EXCEPT !.subs_a = @ \ {c.topic}]
                    ELSE [n1 EXCEPT !.subs_b = @ \ {c.topic}]
          [] c.cmd = "Publish" ->
                IF c.topic \in other_subs
                THEN to_other(NetworkEvent_MessageReceived(c.topic, c.data))
                ELSE net
          [] OTHER -> net

\* The commands of one handler, in the order they were sent.
RECURSIVE route(_, _, _, _)
route(net, from, id, cmds) ==
    IF cmds = <<>> THEN net
    ELSE route(route1(net, from, id, Head(cmds)), from, id, Tail(cmds))

\* ---------------------------------------------------------------- inputs
Names == { <<"a">>, <<"b", "a">> }
Passwords == { <<"p">>, <<"q">> }
Addrs == { <<"x">>, <<"y">> }
CoreAddrs == { <<"x">> }
Texts == { StrText(<<"h">>) }
PeerIds == { <<"P", "1">> }
Topics == { topic_for_room(n) : n \in Names }

\* A remote participant.
remote == [peer_id |-> <<"P", "1">>, nickname |-> <<"m">>, discriminator |-> <<"1">>]

\* Room codes a user can type: codes of rooms created by the remote
\* participant, with and without an address, and codes that do not decode.
GoodCodes ==
    { encode(RoomCodeData(n, remote.peer_id, a)) : n \in Names, a \in {<<>>, <<"x">>} }
BadCodes == { NotBase58, Base58(<<"a">>), Base58(<<"a", NUL, "P">>) }
Codes == GoodCodes \cup BadCodes

\* Payloads the overlay can deliver: what members holding the key of
\* (password "p", room n) can publish, and noise.
WiresFor(k, n) ==
    { WireMessage("Chat", remote.nickname, remote.discriminator, StrText(<<"h">>)),
      WireMessage("Chat", identity.nickname, identity.discriminator, StrText(<<"h">>)),
      WireMessage("VerificationToken", remote.nickname, remote.discriminator,
                  TokenText(make_verification_token(k, n, 0))),
      WireMessage("VerificationToken", remote.nickname, remote.discriminator,
                  StrText(<<"h">>)),
      WireMessage("VerificationToken", remote.nickname, remote.discriminator,
                  TokenText(make_verification_token(k, <<"z">>, 0))),
      WireMessage("Other", remote.nickname, remote.discriminator, StrText(<<"h">>)) }

Payloads ==
    UNION { { encrypt(derive(<<"p">>, n), to_vec(w), 0) :
                w \in WiresFor(derive(<<"p">>, n), n) }
            \cup { encrypt(derive(<<"p">>, n), Garbage, 0) } : n \in Names }
    \cup { Noise(0), Noise(NONCE_LEN + TAG_LEN - 1) }

\* The second controller after construction (it runs the same code with
\* the identity of the remote participant); last and by record the select
\* branch it took last and how it entered its room.
PeerInit ==
    [identity |-> remote, room |-> None, room_key |-> None, logger |-> None,
     peers |-> EmptyMap, listen_addrs |-> <<>>, pending_verify |-> None,
     net |-> << QueryListenAddrs >>, ui |-> <<>>, last |-> "run", by |-> "none"]

\* The overlay with nothing subscribed and nothing in flight.
NetworkInit ==
    [code |-> None, subs_a |-> {}, subs_b |-> {}, to_a |-> <<>>, to_b |-> <<>>]

\* The Interface after cli_inner has set up: CliState::new and
\* Screen::MainMenu.  The message list, the input buffer, the prompt label
\* and the masking flag only feed the drawing and the text of the next
\* line; a line of input is taken whole when Enter is pressed.
InterfaceInit ==
    [screen |-> "MainMenu", step |-> 0, current_room |-> None, peer_count |-> 0,
     create_name |-> <<>>, join_code |-> None, running |-> TRUE]

\* ---------------------------------------------------------------- run()
AppInit ==
    /\ room = None
    /\ room_key = None
    /\ logger = None
    /\ peers = EmptyMap
    /\ listen_addrs = <<>>
    /\ pending_verify = None
    /\ net_cmds = << QueryListenAddrs >>
    /\ ui_events = <<>>
    /\ sleep = TickMillis
    /\ running = TRUE
    /\ last = "run"
    /\ since_join = 0
    /\ addr_log = <<>>
    /\ driver_up = TRUE
    /\ cli_queue = <<>>
    /\ peer = PeerInit
    /\ network = NetworkInit
    /\ interface = InterfaceInit
    /\ ui_queue = <<>>

\* The program after construction: no function is being evaluated on its own.
Init ==
    /\ AppInit
    /\ calc = None
    /\ net_queue = net_cmds
    /\ subscribed = {}

\* One iteration of the loop has handled a select branch and left st; the
\* next iteration creates a fresh sleep.
Store(st, op) ==
    /\ room' = st.room
    /\ room_key' = st.room_key
    /\ logger' = st.logger
    /\ peers' = st.peers
    /\ listen_addrs' = st.listen_addrs
    /\ pending_verify' = st.pending_verify
    /\ net_cmds' = st.net
    /\ ui_events' = st.ui
    /\ sleep' = TickMillis
    /\ last' = op
    /\ since_join' = IF st.pending_verify = None \/ op = "JoinRoom" THEN 0
                     ELSE since_join

\* The same, with nothing happening at the other ends of the channels.
Commit(st, op) ==
    /\ Store(st, op)
    /\ UNCHANGED world

\* The CLI branch of select: an Err is reported to the UI.
AfterCli(r) ==
    IF r.err # None THEN ui_send(r.st, Error(Unwrap(r.err))) ELSE r.st

CommitCli(r, op) ==
    /\ Commit(AfterCli(r), op)
    /\ UNCHANGED << running, addr_log >>

SendMessageOf(text, nonce, enc_ok) ==
    /\ running
    /\ CommitCli(send_message(Ctl, text, nonce, enc_ok), "SendMessage")

SendMessage ==
    \E text \in Texts, nonce \in Nonces, enc_ok \in BOOLEAN :
        SendMessageOf(text, nonce, enc_ok)

CreateRoomOf(name, password, kdf_ok, io_ok) ==
    /\ running
    /\ CommitCli(create_room(Ctl, name, password, kdf_ok, io_ok), "CreateRoom")

CreateRoom ==
    \E name \in Names, password \in Passwords, kdf_ok \in BOOLEAN, io_ok \in BOOLEAN :
        CreateRoomOf(name, password, kdf_ok, io_ok)

JoinRoomOf(code, password, kdf_ok, io_ok) ==
    /\ running
    /\ CommitCli(join_room(Ctl, code, password, kdf_ok, io_ok), "JoinRoom")

JoinRoom ==
    \E code \in Codes, password \in Passwords, kdf_ok \in BOOLEAN, io_ok \in BOOLEAN :
        JoinRoomOf(code, password, kdf_ok, io_ok)

LeaveRoom ==
    /\ running
    /\ CommitCli(Done(leave_room(Ctl)), "LeaveRoom")

ListPeers ==
    /\ running
    /\ \E order \in Orders(peers) :
         CommitCli(Done(ListPeers_cmd(Ctl, order)), "ListPeers")

Help ==
    /\ running
    /\ CommitCli(Done(Help_cmd(Ctl)), "Help")

\* Ok(true): the loop breaks.
Quit ==
    /\ running
    /\ running' = FALSE
    /\ last' = "Quit"
    /\ net_cmds' = <<>>
    /\ ui_events' = <<>>
    /\ UNCHANGED << room, room_key, logger, peers, listen_addrs, pending_verify,
                    sleep, since_join, addr_log >>
    /\ UNCHANGED world

MessageReceivedOf(topic, payload) ==
    /\ running
    /\ Commit(handle_message(Ctl, topic, payload), "MessageReceived")
    /\ UNCHANGED << running, addr_log >>

MessageReceived ==
    \E topic \in Topics, payload \in Payloads : MessageReceivedOf(topic, payload)

PeerSubscribedOf(topic, peer_id, n1, n2) ==
    /\ running
    /\ room # None /\ topic = Unwrap(room).topic
          => Unwrap(room).peer_count < MaxPeerCount
    /\ Commit(PeerSubscribed_event(Ctl, topic, n1, n2), "PeerSubscribed")
    /\ UNCHANGED << running, addr_log >>

PeerSubscribed ==
    \E topic \in Topics, peer_id \in PeerIds, n1 \in Nonces, n2 \in Nonces :
        PeerSubscribedOf(topic, peer_id, n1, n2)

PeerDisconnectedOf(peer_id) ==
    /\ running
    /\ Commit(PeerDisconnected_event(Ctl, peer_id), "PeerDisconnected")
    /\ UNCHANGED << running, addr_log >>

PeerDisconnected == \E peer_id \in PeerIds : PeerDisconnectedOf(peer_id)

ListeningOnOf(addr) ==
    /\ running
    /\ Commit(ListeningOn_event(Ctl, addr), "ListeningOn")
    /\ addr_log' = IF Contains(listen_addrs, addr) THEN addr_log
                   ELSE Append(addr_log, [kind |-> "ListeningOn", addr |-> addr])
    /\ UNCHANGED running

ListeningOn == \E addr \in CoreAddrs : ListeningOnOf(addr)

NewExternalAddrOf(addr) ==
    /\ running
    /\ Commit(NewExternalAddr_event(Ctl, addr), "NewExternalAddr")
    /\ addr_log' = IF Contains(listen_addrs, addr) THEN addr_log
                   ELSE Append(addr_log, [kind |-> "NewExternalAddr", addr |-> addr])
    /\ UNCHANGED running

NewExternalAddr == \E addr \in CoreAddrs : NewExternalAddrOf(addr)

PeerConnected ==
    /\ running
    /\ Commit(Ctl, "PeerConnected")
    /\ UNCHANGED << running, addr_log >>

\* The timer branch of select: taken only once the sleep has completed.
Tick ==
    /\ running
    /\ sleep = 0
    /\ Commit(check_verify_timeout(Ctl), "Tick")
    /\ UNCHANGED << running, addr_log >>

\* Time passes while the loop waits in select.
Advance ==
    /\ running
    /\ sleep > 0 \/ (pending_verify # None /\ Unwrap(pending_verify).deadline > 0)
    /\ sleep' = Max(sleep - Quantum, 0)
    /\ pending_verify' =
         IF pending_verify = None THEN None
         ELSE Some([Unwrap(pending_verify) EXCEPT !.deadline = Max(@ - Quantum, 0)])
    /\ since_join' = IF pending_verify = None THEN 0
                     ELSE Min(since_join + Quantum, VerifyMillis)
    /\ UNCHANGED << room, room_key, logger, peers, listen_addrs, net_cmds,
                    ui_events, running, last, addr_log >>
    /\ UNCHANGED world

Next ==
    \/ SendMessage
    \/ CreateRoom
    \/ JoinRoom
    \/ LeaveRoom
    \/ ListPeers
    \/ Help
    \/ Quit
    \/ MessageReceived
    \/ PeerSubscribed
    \/ PeerDisconnected
    \/ ListeningOn
    \/ NewExternalAddr
    \/ PeerConnected
    \/ Tick
    \/ Advance

Spec == Init /\ [][Next]_vars

\* select! picks among the ready branches at random, so a branch that is
\* ready again and again is eventually taken; time always passes.
FairSpec == Spec /\ WF_vars(Advance) /\ SF_vars(Tick)

\* The network driver task ends (its run() returns or panics): net_cmd_rx is
\* dropped, and every later net_cmd_tx.send returns Err.  Events the driver
\* sent before it ended may still be received.
DriverStopped ==
    /\ running
    /\ driver_up
    /\ driver_up' = FALSE
    /\ UNCHANGED << room, room_key, logger, peers, listen_addrs, pending_verify,
                    net_cmds, ui_events, sleep, running, last, since_join,
                    addr_log, cli_queue, peer, network,
                    calc, net_queue, subscribed,
                    interface, ui_queue >>

DriverNext ==
    \/ Next
    \/ DriverStopped

DriverSpec == Init /\ [][DriverNext]_vars

\* The cli_cmd channel is unbounded; the model lets the Interface run at most
\* MaxQueue commands ahead of the controller.
MaxQueue == 2

\* Commands the Interface sends.
QueueCmds ==
    { CliCommand_Quit, CliCommand_Help, CliCommand_LeaveRoom, CliCommand_ListPeers,
      CliCommand_SendMessage(StrText(<<"h">>)),
      CliCommand_CreateRoom(<<"a">>, <<"p">>) }

QuitSent == \E i \in 1..Len(cli_queue) : cli_queue[i].cmd = "Quit"

\* handle_key: the Interface sends a command; after Quit it returns and
\* sends nothing more.
CliSendOf(c) ==
    /\ running
    /\ ~QuitSent
    /\ Len(cli_queue) < MaxQueue
    /\ cli_queue' = Append(cli_queue, c)
    /\ UNCHANGED << room, room_key, logger, peers, listen_addrs, pending_verify,
                    net_cmds, ui_events, sleep, running, last, since_join,
                    addr_log, driver_up, peer, network,
                    calc, net_queue, subscribed,
                    interface, ui_queue >>

CliSend == \E c \in QueueCmds : CliSendOf(c)

\* The CLI branch of select: cli_cmd_rx.recv() yields the oldest command.
CliRecv ==
    /\ running
    /\ cli_queue # <<>>
    /\ cli_queue' = Tail(cli_queue)
    /\ \E nonce \in Nonces, enc_ok \in BOOLEAN, kdf_ok \in BOOLEAN,
          io_ok \in BOOLEAN, order \in Orders(peers) :
          LET c == Head(cli_queue)
              r == handle_cli_command(Ctl, c,
                       [nonce |-> nonce, enc_ok |-> enc_ok, kdf_ok |-> kdf_ok,
                        io_ok |-> io_ok, order |-> order])
          IN  IF r.quit
              THEN /\ running' = FALSE
                   /\ last' = "Quit"
                   /\ net_cmds' = <<>>
                   /\ ui_events' = <<>>
                   /\ UNCHANGED << room, room_key, logger, peers, listen_addrs,
                                   pending_verify, sleep, since_join >>
              ELSE /\ Store(AfterCli(r), c.cmd)
                   /\ UNCHANGED running
    /\ UNCHANGED << addr_log, driver_up, peer, network,
                    calc, net_queue, subscribed,
                    interface, ui_queue >>

QueueNext ==
    \/ CliSend
    \/ CliRecv
    \/ PeerSubscribed
    \/ PeerConnected
    \/ Tick
    \/ Advance

QueueSpec == Init /\ [][QueueNext]_vars

\* A select branch that stays ready is taken after finitely many iterations.
FairQueueSpec == QueueSpec /\ WF_vars(CliRecv)

\* Two controllers over one overlay: this controller (A) creates a room and
\* sends messages, the second one (B) joins with the code A showed.
MaxInbox == 1

\* Texts a user can send.
SendTexts == { StrText(<<"h">>), StrText(<<"h", "i">>) }

\* B with empty outbound channels, ready for its next handler.
PeerCtl == [peer EXCEPT !.net = <<>>, !.ui = <<>>]

PairCreateRoom ==
    /\ running
    /\ room = None
    /\ \E name \in Names, password \in Passwords :
          LET st == AfterCli(create_room(Ctl, name, password, TRUE, TRUE))
              created == CHOOSE i \in 1..Len(st.ui) : st.ui[i].ev = "RoomCreated"
          IN  /\ Store(st, "CreateRoom")
              /\ network' = [route(network, "a", identity.peer_id, st.net)
                                 EXCEPT !.code = Some(st.ui[created].code)]
    /\ UNCHANGED << running, addr_log, driver_up, cli_queue, peer,
                    calc, net_queue, subscribed,
                    interface, ui_queue >>

PairSendMessage ==
    /\ running
    /\ room # None
    /\ Len(network.to_b) < MaxInbox
    /\ \E text \in SendTexts, nonce \in Nonces :
          LET st == AfterCli(send_message(Ctl, text, nonce, TRUE))
          IN  /\ Store(st, "SendMessage")
              /\ network' = route(network, "a", identity.peer_id, st.net)
    /\ UNCHANGED << running, addr_log, driver_up, cli_queue, peer,
                    calc, net_queue, subscribed,
                    interface, ui_queue >>

\* A handles the oldest event the overlay has for it.
PairRecvA ==
    /\ running
    /\ network.to_a # <<>>
    /\ \E nonce1 \in Nonces, nonce2 \in Nonces :
          LET e == Head(network.to_a)
              st == handle_network_event(Ctl, e,
                        [nonce1 |-> nonce1, nonce2 |-> nonce2])
          IN  /\ Store(st, e.ev)
              /\ network' = route([network EXCEPT !.to_a = Tail(@)],
                                  "a", identity.peer_id, st.net)
    /\ UNCHANGED << running, addr_log, driver_up, cli_queue, peer,
                    calc, net_queue, subscribed,
                    interface, ui_queue >>

\* B's user types the code A showed.
PairJoinRoom ==
    /\ network.code # None
    /\ peer.room = None /\ peer.pending_verify = None
    /\ \E password \in Passwords :
          LET st == AfterCli(join_room(PeerCtl, Unwrap(network.code), password,
                                      TRUE, TRUE))
          IN  /\ peer' = [st EXCEPT !.last = "JoinRoom"]
              /\ network' = route(network, "b", remote.peer_id, st.net)
    /\ UNCHANGED << room, room_key, logger, peers, listen_addrs, pending_verify,
                    net_cmds, ui_events, sleep, running, last, since_join,
                    addr_log, driver_up, cli_queue,
                    calc, net_queue, subscribed,
                    interface, ui_queue >>

\* B handles the oldest event the overlay has for it.
PairRecvB ==
    /\ network.to_b # <<>>
    /\ \E nonce1 \in Nonces, nonce2 \in Nonces :
          LET e == Head(network.to_b)
              st == handle_network_event(PeerCtl, e,
                        [nonce1 |-> nonce1, nonce2 |-> nonce2])
          IN  /\ peer' = [st EXCEPT !.last = e.ev,
                                    !.by = IF peer.room = None /\ st.room # None
                                           THEN "confirm" ELSE @]
              /\ network' = route([network EXCEPT !.to_b = Tail(@)],
                                  "b", remote.peer_id, st.net)
    /\ UNCHANGED << room, room_key, logger, peers, listen_addrs, pending_verify,
                    net_cmds, ui_events, sleep, running, last, since_join,
                    addr_log, driver_up, cli_queue,
                    calc, net_queue, subscribed,
                    interface, ui_queue >>

\* B's timer branch.
PairTick ==
    /\ peer.pending_verify # None
    /\ LET st == check_verify_timeout(PeerCtl)
       IN  /\ peer' = [st EXCEPT !.last = "Tick",
                                 !.by = IF st.room # None THEN "timeout" ELSE @]
           /\ network' = route(network, "b", remote.peer_id, st.net)
    /\ UNCHANGED << room, room_key, logger, peers, listen_addrs, pending_verify,
                    net_cmds, ui_events, sleep, running, last, since_join,
                    addr_log, driver_up, cli_queue,
                    calc, net_queue, subscribed,
                    interface, ui_queue >>

\* Time passes at B.
PairAdvance ==
    /\ peer.pending_verify # None
    /\ Unwrap(peer.pending_verify).deadline > 0
    /\ peer' = [peer EXCEPT !.pending_verify =
                    Some([Unwrap(@) EXCEPT !.deadline = Max(@ - Quantum, 0)])]
    /\ UNCHANGED << room, room_key, logger, peers, listen_addrs, pending_verify,
                    net_cmds, ui_events, sleep, running, last, since_join,
                    addr_log, driver_up, cli_queue, network,
                    calc, net_queue, subscribed,
                    interface, ui_queue >>

PairNext ==
    \/ PairCreateRoom
    \/ PairSendMessage
    \/ PairRecvA
    \/ PairJoinRoom
    \/ PairRecvB
    \/ PairTick
    \/ PairAdvance

PairSpec == Init /\ [][PairNext]_vars

\* The controller with every address report the driver can make, and the
\* commands that read the address list or empty the room.
ListeningOnAny == \E addr \in Addrs : ListeningOnOf(addr)

NewExternalAddrAny == \E addr \in Addrs : NewExternalAddrOf(addr)

AddrNext ==
    \/ CreateRoom
    \/ LeaveRoom
    \/ ListeningOnAny
    \/ NewExternalAddrAny

AddrSpec == Init /\ [][AddrNext]_vars

\* ---------------------------------------------------------------- net_cmd channel
\* The controller and the network driver at the two ends of the net_cmd
\* channel: the controller sends, the driver receives and applies.  The
\* channel is unbounded; the model lets the controller run a handler only
\* while at most MaxBacklog commands wait in it.
MaxBacklog == 1

\* Mutant: the receiver takes the newest command first.
mpsc_recv_newest(queue) ==
    [cmd |-> queue[Len(queue)], rest |-> SubSeq(queue, 1, Len(queue) - 1)]

\* UnboundedReceiver::recv: the oldest command and what stays behind.
mpsc_recv(queue) == [cmd |-> Head(queue), rest |-> Tail(queue)]

\* NetworkService::handle_command, as far as the subscriptions of gossipsub
\* go (the ListeningOn events it sends for QueryListenAddrs reach the
\* controller as ListeningOn events).
handle_command(subs, c) ==
    CASE c.cmd = "Subscribe" -> subs \cup {c.topic}
      [] c.cmd = "Unsubscribe" -> subs \ {c.topic}
      [] OTHER -> subs

\* A handler has returned: what it sent on net_cmd_tx is in the channel.
Enqueue(st, op) ==
    /\ Store(st, op)
    /\ net_queue' = net_queue \o st.net
    /\ UNCHANGED << running, addr_log, driver_up, cli_queue, peer, network,
                    calc, subscribed,
                    interface, ui_queue >>

OrderCreateRoom ==
    /\ running
    /\ Len(net_queue) <= MaxBacklog
    /\ \E name \in Names, password \in Passwords, io_ok \in BOOLEAN :
          Enqueue(AfterCli(create_room(Ctl, name, password, TRUE, io_ok)),
                  "CreateRoom")

OrderJoinRoom ==
    /\ running
    /\ Len(net_queue) <= MaxBacklog
    /\ \E code \in GoodCodes, password \in Passwords, io_ok \in BOOLEAN :
          Enqueue(AfterCli(join_room(Ctl, code, password, TRUE, io_ok)),
                  "JoinRoom")

OrderLeaveRoom ==
    /\ running
    /\ Len(net_queue) <= MaxBacklog
    /\ Enqueue(leave_room(Ctl), "LeaveRoom")

OrderMessageReceived ==
    /\ running
    /\ Len(net_queue) <= MaxBacklog
    /\ \E topic \in Topics, payload \in Payloads :
          Enqueue(handle_message(Ctl, topic, payload), "MessageReceived")

\* The command branch of the select of NetworkService::run.
DriverRecv ==
    /\ driver_up
    /\ net_queue # <<>>
    /\ net_queue' = mpsc_recv(net_queue).rest
    /\ subscribed' = handle_command(subscribed, mpsc_recv(net_queue).cmd)
    /\ UNCHANGED << room, room_key, logger, peers, listen_addrs, pending_verify,
                    net_cmds, ui_events, sleep, running, last, since_join,
                    addr_log, driver_up, cli_queue, peer, network, calc,
                    interface, ui_queue >>

OrderNext ==
    \/ OrderCreateRoom
    \/ OrderJoinRoom
    \/ OrderLeaveRoom
    \/ OrderMessageReceived
    \/ DriverRecv
    \/ Tick
    \/ Advance

OrderSpec == Init /\ [][OrderNext]_vars

\* ---------------------------------------------------------------- cli.rs
\* The chat screen of the Interface: handle_key for Screen::Chat.  calc holds
\* the input buffer, what the last key sent on cmd_tx (None if nothing) and
\* whether handle_key returned Ok(true).
\* MAX_INPUT_LEN is 2048; the model types into a buffer of MaxInputLen.
MaxInputLen == 7

SPACE == " "

\* str::trim, with the space as the only whitespace typed.
RECURSIVE trim_start(_)
trim_start(s) ==
    IF s # <<>> /\ Head(s) = SPACE THEN trim_start(Tail(s)) ELSE s

RECURSIVE trim_end(_)
trim_end(s) ==
    IF s # <<>> /\ s[Len(s)] = SPACE
    THEN trim_end(SubSeq(s, 1, Len(s) - 1))
    ELSE s

trim(s) == trim_end(trim_start(s))

SlashQuit == << "/", "q", "u", "i", "t" >>
SlashPeers == << "/", "p", "e", "e", "r", "s" >>
SlashHelp == << "/", "h", "e", "l", "p" >>

\* Mutant: only the three known commands are taken as commands.
chat_command_known_only(input) ==
    CASE input = SlashQuit -> CliCommand_LeaveRoom
      [] input = SlashPeers -> CliCommand_ListPeers
      [] input = SlashHelp -> CliCommand_Help
      [] OTHER -> CliCommand_SendMessage(StrText(input))

\* match input.as_str() of the Enter arm, for a non-empty input.
chat_command(input) ==
    CASE input = SlashQuit -> CliCommand_LeaveRoom
      [] input = SlashPeers -> CliCommand_ListPeers
      [] input = SlashHelp -> CliCommand_Help
      [] OTHER -> IF Head(input) = "/" THEN CliCommand_Help
                  ELSE CliCommand_SendMessage(StrText(input))

\* KeyEvent: kind, the CONTROL modifier and the key code (code "Char" with
\* its character ch).
KeyEvent(kind, ctrl, code, ch) ==
    [kind |-> kind, ctrl |-> ctrl, code |-> code, ch |-> ch]

handle_text_input(key, buf) ==
    CASE key.code = "Char" -> Append(buf, key.ch)
      [] key.code = "Backspace" ->
            IF buf = <<>> THEN buf ELSE SubSeq(buf, 1, Len(buf) - 1)
      [] OTHER -> buf

handle_key(st, key) ==
    IF key.kind = "Release" THEN [st EXCEPT !.sent = None]
    ELSE IF key.ctrl /\ key.code = "Char" /\ key.ch = "c"
    THEN [st EXCEPT !.sent = Some(CliCommand_Quit), !.quit = TRUE]
    ELSE IF key.code = "Enter"
    THEN LET input == trim(st.input_buffer)
         IN  [st EXCEPT !.input_buffer = <<>>,
                        !.sent = IF input # <<>> THEN Some(chat_command(input))
                                 ELSE None]
    ELSE IF Len(st.input_buffer) < MaxInputLen
    THEN [st EXCEPT !.input_buffer = handle_text_input(key, @), !.sent = None]
    ELSE [st EXCEPT !.sent = None]

\* Characters typed one by one, and buffers typed so far.
TypedChars == { "/", SPACE, "h", "t" }

TypedBuffers ==
    { <<>>, SlashQuit, SlashPeers, SlashHelp,
      << "/", "q", "u", "i" >>, << SPACE >> \o SlashQuit,
      << "/", "Q", "U", "I", "T" >>, << "h", "i" >> }

ChatInit ==
    /\ AppInit
    /\ net_queue = net_cmds
    /\ subscribed = {}
    /\ calc \in { [fn |-> "handle_key", input_buffer |-> b, sent |-> None,
                   quit |-> FALSE] : b \in TypedBuffers }

KeyOf(key) ==
    /\ ~calc.quit
    /\ calc' = handle_key(calc, key)
    /\ UNCHANGED << room, room_key, logger, peers, listen_addrs, pending_verify,
                    net_cmds, ui_events, sleep, running, last, since_join,
                    addr_log, driver_up, cli_queue, peer, network,
                    net_queue, subscribed, interface, ui_queue >>

KeyChar == \E c \in TypedChars : KeyOf(KeyEvent("Press", FALSE, "Char", c))

KeyBackspace == KeyOf(KeyEvent("Press", FALSE, "Backspace", ""))

KeyEnter == KeyOf(KeyEvent("Press", FALSE, "Enter", ""))

KeyTab == KeyOf(KeyEvent("Press", FALSE, "Tab", ""))

KeyRelease ==
    \E code \in {"Enter", "Backspace"} : KeyOf(KeyEvent("Release", FALSE, code, ""))

KeyCtrlC == \E kind \in {"Press", "Repeat"} : KeyOf(KeyEvent(kind, TRUE, "Char", "c"))

ChatNext ==
    \/ KeyChar
    \/ KeyBackspace
    \/ KeyEnter
    \/ KeyTab
    \/ KeyRelease
    \/ KeyCtrlC

ChatSpec == ChatInit /\ [][ChatNext]_vars

\* ---------------------------------------------------------------- cli_inner
\* The Interface and the controller at the two ends of the cli_cmd and the
\* ui_event channel.  Both channels are unbounded; the model lets the
\* Interface send while fewer than MaxUiCmds commands wait, and lets the
\* controller run a handler while at most MaxUiBacklog events wait.
MaxUiCmds == 1
MaxUiBacklog == 0

\* Mutant: ShowMainMenu clears the room but leaves the screen as it is.
ui_event_keep_screen(ui, e) ==
    CASE e.ev = "StatusUpdate" ->
            [ui EXCEPT !.current_room = e.room, !.peer_count = e.peers]
      [] e.ev \in {"RoomCreated", "RoomJoined"} ->
            [ui EXCEPT !.current_room = Some(e.name),
                       !.screen = "Chat", !.step = 0]
      [] e.ev = "ShowMainMenu" ->
            [ui EXCEPT !.current_room = None]
      [] OTHER -> ui

\* The UI event branch of the select of cli_inner.  NewMessage, AccessDenied
\* and Error only add to the message list and redraw.
ui_event(ui, e) ==
    CASE e.ev = "StatusUpdate" ->
            [ui EXCEPT !.current_room = e.room, !.peer_count = e.peers]
      [] e.ev \in {"RoomCreated", "RoomJoined"} ->
            [ui EXCEPT !.current_room = Some(e.name),
                       !.screen = "Chat", !.step = 0]
      [] e.ev = "ShowMainMenu" ->
            [ui EXCEPT !.current_room = None,
                       !.screen = "MainMenu", !.step = 0]
      [] OTHER -> ui

\* handle_key on every screen, with line the content of the input buffer
\* (typed key by key through handle_text_input, which touches nothing
\* else): the Interface after the key, the command sent on cmd_tx and
\* whether the loop breaks.  On the Chat screen this is handle_key above.
\* Enter with a nickname on the ChangeNickname screen sends
\* CliCommand::ChangeNickname, which types.rs does not define and the
\* controller has no arm for: nothing reaches the controller.
screen_key(ui, key, line) ==
    LET stay == [ui |-> ui, sent |-> None, quit |-> FALSE]
        goto(s) == [stay EXCEPT !.ui = [ui EXCEPT !.screen = s, !.step = 0]]
        send(c) == [stay EXCEPT !.sent = Some(c)]
    IN  IF key.kind = "Release" THEN stay
        ELSE IF key.ctrl /\ key.code = "Char" /\ key.ch = "c"
        THEN [stay EXCEPT !.sent = Some(CliCommand_Quit), !.quit = TRUE]
        ELSE CASE ui.screen = "MainMenu" ->
                    IF key.code # "Char" THEN stay
                    ELSE CASE key.ch = "1" -> goto("CreateRoom")
                           [] key.ch = "2" -> goto("JoinRoom")
                           [] key.ch = "3" -> goto("ChangeNickname")
                           [] key.ch \in {"q", "Q"} ->
                                 [stay EXCEPT !.sent = Some(CliCommand_Quit),
                                              !.quit = TRUE]
                           [] OTHER -> stay
               [] ui.screen = "CreateRoom" ->
                    CASE key.code = "Enter" ->
                            IF ui.step = 0
                            THEN [stay EXCEPT !.ui = [ui EXCEPT
                                     !.create_name = trim(line), !.step = 1]]
                            ELSE send(CliCommand_CreateRoom(ui.create_name, line))
                      [] key.code = "Esc" -> goto("MainMenu")
                      [] OTHER -> stay
               [] ui.screen = "JoinRoom" ->
                    CASE key.code = "Enter" ->
                            IF ui.step = 0
                            THEN [stay EXCEPT !.ui = [ui EXCEPT
                                     !.join_code = Some(line), !.step = 1]]
                            ELSE send(CliCommand_JoinRoom(Unwrap(ui.join_code), line))
                      [] key.code = "Esc" -> goto("MainMenu")
                      [] OTHER -> stay
               [] ui.screen = "ChangeNickname" ->
                    CASE key.code = "Enter" ->
                            IF trim(line) # <<>> THEN stay ELSE goto("MainMenu")
                      [] key.code = "Esc" -> goto("MainMenu")
                      [] OTHER -> stay
               [] ui.screen = "Chat" ->
                    LET r == handle_key([input_buffer |-> line, sent |-> None,
                                         quit |-> FALSE], key)
                    IN  [stay EXCEPT !.sent = r.sent, !.quit = r.quit]

\* The room the user of the Interface creates or joins, and the code of a
\* room of that name created by the remote participant.
UiName == << "a" >>
UiPassword == << "p" >>
UiCode == encode(RoomCodeData(UiName, remote.peer_id, << "x" >>))

\* Lines a user types before Enter, screen by screen.
UiLines(ui) ==
    CASE ui.screen = "CreateRoom" ->
            IF ui.step = 0 THEN { UiName } ELSE { UiPassword }
      [] ui.screen = "JoinRoom" ->
            IF ui.step = 0 THEN { UiCode, NotBase58 } ELSE { UiPassword }
      [] ui.screen = "ChangeNickname" -> { <<>>, << "n" >> }
      [] ui.screen = "Chat" -> { SlashQuit, << "h" >> }
      [] OTHER -> { <<>> }

\* The keyboard branch of the select of cli_inner.  When handle_key returns
\* true the loop breaks and ui_rx is dropped with what waits in it.
UiKeyOf(key, line) ==
    /\ interface.running
    /\ LET r == screen_key(interface, key, line)
       IN  /\ r.sent # None => Len(cli_queue) < MaxUiCmds
           /\ interface' = [r.ui EXCEPT !.running = ~r.quit]
           /\ cli_queue' = IF r.sent # None
                           THEN Append(cli_queue, Unwrap(r.sent))
                           ELSE cli_queue
           /\ ui_queue' = IF r.quit THEN <<>> ELSE ui_queue
    /\ UNCHANGED << room, room_key, logger, peers, listen_addrs, pending_verify,
                    net_cmds, ui_events, sleep, running, last, since_join,
                    addr_log, driver_up, peer, network, calc, net_queue,
                    subscribed >>

UiKeyChar ==
    \E ch \in {"1", "2", "3", "q"} :
        UiKeyOf(KeyEvent("Press", FALSE, "Char", ch), <<>>)

UiKeyEnter ==
    \E line \in UiLines(interface) :
        UiKeyOf(KeyEvent("Press", FALSE, "Enter", ""), line)

UiKeyEsc == UiKeyOf(KeyEvent("Press", FALSE, "Esc", ""), <<>>)

UiKeyCtrlC == UiKeyOf(KeyEvent("Press", TRUE, "Char", "c"), <<>>)

\* ui_rx.recv() yields the oldest event.
UiRecv ==
    /\ interface.running
    /\ ui_queue # <<>>
    /\ interface' = ui_event(interface, Head(ui_queue))
    /\ ui_queue' = Tail(ui_queue)
    /\ UNCHANGED << room, room_key, logger, peers, listen_addrs, pending_verify,
                    net_cmds, ui_events, sleep, running, last, since_join,
                    addr_log, driver_up, cli_queue, peer, network, calc,
                    net_queue, subscribed >>

\* A handler of the controller has returned: what it sent on ui_event_tx is
\* in the channel, unless the Interface has dropped the receiver.
Deliver(st, op) ==
    /\ Store(st, op)
    /\ ui_queue' = IF interface.running THEN ui_queue \o st.ui ELSE ui_queue
    /\ UNCHANGED << addr_log, driver_up, peer, network, calc, net_queue,
                    subscribed, interface >>

\* The CLI branch of the select of run().
UiCliRecv ==
    /\ running
    /\ cli_queue # <<>>
    /\ Len(ui_queue) <= MaxUiBacklog
    /\ cli_queue' = Tail(cli_queue)
    /\ \E nonce \in Nonces, io_ok \in BOOLEAN, order \in Orders(peers) :
          LET c == Head(cli_queue)
              r == handle_cli_command(Ctl, c,
                       [nonce |-> nonce, enc_ok |-> TRUE, kdf_ok |-> TRUE,
                        io_ok |-> io_ok, order |-> order])
          IN  IF r.quit
              THEN /\ running' = FALSE
                   /\ last' = "Quit"
                   /\ net_cmds' = <<>>
                   /\ ui_events' = <<>>
                   /\ UNCHANGED << room, room_key, logger, peers, listen_addrs,
                                   pending_verify, sleep, since_join,
                                   addr_log, driver_up, peer, network, calc,
                                   net_queue, subscribed, interface, ui_queue >>
              ELSE /\ Deliver(AfterCli(r), c.cmd)
                   /\ UNCHANGED running

\* What the network delivers for the room: the token of a member, a
\* VerificationToken that does not verify, a subscription.
UiNetEvents ==
    LET k == derive(UiPassword, UiName)
        frame(w) == NetworkEvent_MessageReceived(topic_for_room(UiName),
                                                 encrypt(k, to_vec(w), 0))
    IN  { frame(WireMessage("VerificationToken", remote.nickname,
                            remote.discriminator,
                            TokenText(make_verification_token(k, UiName, 0)))),
          frame(WireMessage("VerificationToken", remote.nickname,
                            remote.discriminator, StrText(<< "h" >>))),
          NetworkEvent_PeerSubscribed(topic_for_room(UiName), remote.peer_id) }

\* The network branch of the select of run().
UiNetEvent ==
    /\ running
    /\ Len(ui_queue) <= MaxUiBacklog
    /\ \E e \in UiNetEvents, n1 \in Nonces, n2 \in Nonces :
          /\ (e.ev = "PeerSubscribed" /\ room # None)
                => Unwrap(room).peer_count < MaxPeerCount
          /\ Deliver(handle_network_event(Ctl, e, [nonce1 |-> n1, nonce2 |-> n2]),
                     e.ev)
    /\ UNCHANGED << running, cli_queue >>

\* The timer branch of the select of run().
UiTick ==
    /\ running
    /\ sleep = 0
    /\ Len(ui_queue) <= MaxUiBacklog
    /\ Deliver(check_verify_timeout(Ctl), "Tick")
    /\ UNCHANGED << running, cli_queue >>

\* Time passes while both loops wait in select, until the sleep of run()
\* has completed and the deadline of the pending join, if any, has passed
\* (a tick before the deadline does nothing and sends nothing).
UiAdvance ==
    /\ running
    /\ sleep > 0 \/ (pending_verify # None /\ Unwrap(pending_verify).deadline > 0)
    /\ sleep' = 0
    /\ pending_verify' =
         IF pending_verify = None THEN None
         ELSE Some([Unwrap(pending_verify) EXCEPT !.deadline = 0])
    /\ since_join' = IF pending_verify = None THEN 0 ELSE VerifyMillis
    /\ UNCHANGED << room, room_key, logger, peers, listen_addrs, net_cmds,
                    ui_events, running, last, addr_log >>
    /\ UNCHANGED world

UiNext ==
    \/ UiKeyChar
    \/ UiKeyEnter
    \/ UiKeyEsc
    \/ UiKeyCtrlC
    \/ UiRecv
    \/ UiCliRecv
    \/ UiNetEvent
    \/ UiTick
    \/ UiAdvance

UiSpec == Init /\ [][UiNext]_vars

\* ---------------------------------------------------------------- derive
\* RoomKey::derive on its own: one password and two room names, of up to
\* MaxTail bytes after nothing, after SALT_LEN - 1 and after SALT_LEN bytes.
MaxTail == 2

NameBytes == { "a", "b", NUL }

Tails == UNION { [1..n -> NameBytes] : n \in 0..MaxTail }

Fill(n) == [i \in 1..n |-> "a"]

LongNames == { Fill(n) \o t : n \in {0, SALT_LEN - 1, SALT_LEN}, t \in Tails }

KdfInit ==
    /\ AppInit
    /\ net_queue = net_cmds
    /\ subscribed = {}
    /\ calc \in { [fn |-> "derive", password |-> p, r1 |-> r1, r2 |-> r2,
                   k1 |-> None, k2 |-> None] :
                  p \in Passwords, r1 \in LongNames, r2 \in LongNames }

\* Both derivations return.
Derive ==
    /\ calc.k1 = None
    /\ calc' = [calc EXCEPT !.k1 = Some(derive(calc.password, calc.r1)),
                            !.k2 = Some(derive(calc.password, calc.r2))]
    /\ UNCHANGED << room, room_key, logger, peers, listen_addrs, pending_verify,
                    net_cmds, ui_events, sleep, running, last, since_join,
                    addr_log, driver_up, cli_queue, peer, network,
                    net_queue, subscribed, interface, ui_queue >>

KdfNext ==
    \/ Derive

KdfSpec == KdfInit /\ [][KdfNext]_vars

\* ---------------------------------------------------------------- encrypt / decrypt
\* RoomKey::encrypt and RoomKey::decrypt on their own: a plaintext is sealed
\* under key k and the frame is opened under key k2.
RoomKeys == { derive(p, n) : p \in Passwords, n \in Names }

Plaintexts ==
    { TextBytes(<<>>), TextBytes(<<"h">>), Garbage,
      to_vec(WireMessage("Chat", remote.nickname, remote.discriminator,
                         StrText(<<"h">>))) }

AeadInit ==
    /\ AppInit
    /\ net_queue = net_cmds
    /\ subscribed = {}
    /\ calc \in { [fn |-> "aead", k |-> k, k2 |-> k2, m |-> m,
                   frame |-> None, out |-> None] :
                  k \in RoomKeys, k2 \in RoomKeys, m \in Plaintexts }

Encrypt ==
    /\ calc.frame = None
    /\ \E nonce \in Nonces :
          calc' = [calc EXCEPT !.frame = Some(encrypt(calc.k, calc.m, nonce))]
    /\ UNCHANGED << room, room_key, logger, peers, listen_addrs, pending_verify,
                    net_cmds, ui_events, sleep, running, last, since_join,
                    addr_log, driver_up, cli_queue, peer, network,
                    net_queue, subscribed, interface, ui_queue >>

Decrypt ==
    /\ calc.frame # None
    /\ calc.out = None
    /\ calc' = [calc EXCEPT !.out = Some(decrypt(calc.k2, Unwrap(calc.frame)))]
    /\ UNCHANGED << room, room_key, logger, peers, listen_addrs, pending_verify,
                    net_cmds, ui_events, sleep, running, last, since_join,
                    addr_log, driver_up, cli_queue, peer, network,
                    net_queue, subscribed, interface, ui_queue >>

AeadNext ==
    \/ Encrypt
    \/ Decrypt

AeadSpec == AeadInit /\ [][AeadNext]_vars

\* ---------------------------------------------------------------- tokens
\* RoomKey::make_verification_token and RoomKey::verify_token on their own:
\* a token made under key k for room r is verified under k2 for room r2.
TokenNames == Names \cup { <<>>, <<":", ":", "a">> }

TokenInit ==
    /\ AppInit
    /\ net_queue = net_cmds
    /\ subscribed = {}
    /\ calc \in { [fn |-> "token", k |-> k, k2 |-> k2, r |-> r, r2 |-> r2,
                   token |-> None, out |-> None] :
                  k \in RoomKeys, k2 \in RoomKeys,
                  r \in TokenNames, r2 \in TokenNames }

MakeToken ==
    /\ calc.token = None
    /\ \E nonce \in Nonces :
          calc' = [calc EXCEPT
                      !.token = Some(make_verification_token(calc.k, calc.r, nonce))]
    /\ UNCHANGED << room, room_key, logger, peers, listen_addrs, pending_verify,
                    net_cmds, ui_events, sleep, running, last, since_join,
                    addr_log, driver_up, cli_queue, peer, network,
                    net_queue, subscribed, interface, ui_queue >>

VerifyToken ==
    /\ calc.token # None
    /\ calc.out = None
    /\ calc' = [calc EXCEPT
                   !.out = Some(verify_token(calc.k2, Unwrap(calc.token), calc.r2))]
    /\ UNCHANGED << room, room_key, logger, peers, listen_addrs, pending_verify,
                    net_cmds, ui_events, sleep, running, last, since_join,
                    addr_log, driver_up, cli_queue, peer, network,
                    net_queue, subscribed, interface, ui_queue >>

TokenNext ==
    \/ MakeToken
    \/ VerifyToken

TokenSpec == TokenInit /\ [][TokenNext]_vars

\* ---------------------------------------------------------------- room codes
\* RoomCodeData::encode and RoomCodeData::decode on their own: either a
\* RoomCodeData x is encoded and the code decoded again, or a code somebody
\* typed is decoded.
MaxField == 2
MaxRaw == 4

\* Strings without NUL, of at most MaxField characters.
Fields == UNION { [1..n -> {"a", "b"}] : n \in 0..MaxField }

\* Base58-decoded texts of at most MaxRaw characters, with any number of NULs.
Raws == UNION { [1..n -> {"a", NUL}] : n \in 0..MaxRaw }

TypedCodes == { Base58(raw) : raw \in Raws } \cup { NotBase58 }

CodecInit ==
    /\ AppInit
    /\ net_queue = net_cmds
    /\ subscribed = {}
    /\ calc \in { [fn |-> "code", x |-> Some(RoomCodeData(n, p, a)),
                   code |-> None, out |-> None] :
                  n \in Fields, p \in Fields, a \in Fields }
                \cup { [fn |-> "code", x |-> None, code |-> Some(c),
                        out |-> None] : c \in TypedCodes }

EncodeCode ==
    /\ calc.x # None
    /\ calc.code = None
    /\ calc' = [calc EXCEPT !.code = Some(encode(Unwrap(calc.x)))]
    /\ UNCHANGED << room, room_key, logger, peers, listen_addrs, pending_verify,
                    net_cmds, ui_events, sleep, running, last, since_join,
                    addr_log, driver_up, cli_queue, peer, network,
                    net_queue, subscribed, interface, ui_queue >>

DecodeCode ==
    /\ calc.code # None
    /\ calc.out = None
    /\ calc' = [calc EXCEPT !.out = Some(decode(Unwrap(calc.code)))]
    /\ UNCHANGED << room, room_key, logger, peers, listen_addrs, pending_verify,
                    net_cmds, ui_events, sleep, running, last, since_join,
                    addr_log, driver_up, cli_queue, peer, network,
                    net_queue, subscribed, interface, ui_queue >>

CodecNext ==
    \/ EncodeCode
    \/ DecodeCode

CodecSpec == CodecInit /\ [][CodecNext]_vars

\* ---------------------------------------------------------------- room sessions
\* The controller in rooms where two remote participants and an echo of its
\* own messages are heard.  The two participants share a nickname and
\* differ in the discriminator (four hex digits of the peer id).
remote2 == [peer_id |-> <<"P", "2">>, nickname |-> <<"m">>, discriminator |-> <<"2">>]

Senders == { remote, remote2 }

\* What the members of the rooms of password "p" publish: chat messages and
\* the verification token of the room.
SessionPayloads ==
    UNION { { encrypt(derive(<<"p">>, n),
                      to_vec(WireMessage("Chat", s.nickname, s.discriminator,
                                         StrText(<<"h">>))), 0) :
                s \in Senders \cup {identity} }
            \cup { encrypt(derive(<<"p">>, n),
                      to_vec(WireMessage("VerificationToken", remote.nickname,
                                remote.discriminator,
                                TokenText(make_verification_token(
                                    derive(<<"p">>, n), n, 0)))), 0) } :
            n \in Names }

SessionMessageReceived ==
    \E topic \in Topics, payload \in SessionPayloads :
        MessageReceivedOf(topic, payload)

SessionPeerDisconnected ==
    \E peer_id \in { s.peer_id : s \in Senders } : PeerDisconnectedOf(peer_id)

SessionNext ==
    \/ CreateRoom
    \/ JoinRoom
    \/ LeaveRoom
    \/ SessionMessageReceived
    \/ SessionPeerDisconnected
    \/ Tick
    \/ Advance

SessionSpec == Init /\ [][SessionNext]_vars

\* ---------------------------------------------------------------- properties
HasUi(evs, e) == \E i \in 1..Len(evs) : evs[i] = e
HasUiKind(evs, k) == \E i \in 1..Len(evs) : evs[i].ev = k
HasCmd(cmds, c) == \E i \in 1..Len(cmds) : cmds[i] = c
CountCmdKind(cmds, k) == Cardinality({i \in 1..Len(cmds) : cmds[i].cmd = k})

InMenu == room = None /\ pending_verify = None
Joining == pending_verify # None
InRoom == room # None

\* C1: PendingVerify and RoomState are never both present, whatever CLI
\* commands, network events and ticks the controller has handled.
C1_StateExclusivity == ~(pending_verify # None /\ room # None)

\* A join timeout has promoted the pending join to a room.
C1_Witness ==
    /\ last = "Tick"
    /\ HasUiKind(ui_events, "RoomJoined")
    /\ room # None
    /\ pending_verify = None

\* C2: the active room key is present iff RoomState is present; in MENU and
\* in JOINING there is no active key.
C2_KeyIffRoom == (room_key # None) <=> (room # None)

\* LeaveRoom has been handled in a room: room and key are both gone.
C2_Witness ==
    /\ last = "LeaveRoom"
    /\ CountCmdKind(net_cmds, "Unsubscribe") = 1
    /\ room = None
    /\ room_key = None

\* data is a frame that opens under key k to a serialized WireMessage.
IsSealedWire(k, data) ==
    /\ decrypt(k, data).ok
    /\ from_slice(decrypt(k, data).val).ok

\* C3: every Publish is issued in IN-ROOM (before and after the handler), on
\* the topic of the current room, and its payload is the encryption under
\* the active room key of a serialized WireMessage.
C3_PublishSealed ==
    [][\A i \in 1..Len(net_cmds') :
          net_cmds'[i].cmd = "Publish" =>
             /\ room # None /\ room_key # None /\ pending_verify = None
             /\ room' # None /\ Unwrap(room').topic = Unwrap(room).topic
             /\ room_key' = room_key
             /\ net_cmds'[i].topic = Unwrap(room).topic
             /\ IsSealedWire(Unwrap(room_key), net_cmds'[i].data)]_vars

\* A PeerSubscribed event has made the controller publish.
C3_Witness ==
    /\ last = "PeerSubscribed"
    /\ CountCmdKind(net_cmds, "Publish") = 1
    /\ room # None

\* The confirm case: the payload opens under the pending key to a
\* VerificationToken WireMessage whose token verifies for the pending room.
ConfirmCase(payload) ==
    /\ pending_verify # None
    /\ LET pv == Unwrap(pending_verify)
           opened == decrypt(pv.room_key, payload)
       IN  /\ opened.ok
           /\ from_slice(opened.val).ok
           /\ Unwrap(from_slice(opened.val).val).msg_type = "VerificationToken"
           /\ verify_token(pv.room_key,
                  token_from_text(Unwrap(from_slice(opened.val).val).text),
                  pv.room_name)

\* C4: in the confirm case the controller moves to IN-ROOM with the pending
\* key as active key and RoomState named after the pending room, removes
\* PendingVerify and emits RoomJoined(room name).
C4_Confirm ==
    [][last' = "MessageReceived" /\ pending_verify # None =>
       \A payload \in {p \in Payloads : ConfirmCase(p)}, topic \in Topics :
          MessageReceivedOf(topic, payload) =>
             /\ room' # None
             /\ Unwrap(room').name = Unwrap(pending_verify).room_name
             /\ room_key' = Some(Unwrap(pending_verify).room_key)
             /\ pending_verify' = None
             /\ HasUi(ui_events', RoomJoined(Unwrap(pending_verify).room_name))]_vars

\* A verification token has confirmed a join.
C4_Witness ==
    /\ last = "MessageReceived"
    /\ HasUiKind(ui_events, "RoomJoined")
    /\ room # None
    /\ room_key # None

\* The deny case: the payload opens under the pending key to a
\* VerificationToken WireMessage whose token does not verify.
DenyCase(payload) ==
    /\ pending_verify # None
    /\ LET pv == Unwrap(pending_verify)
           opened == decrypt(pv.room_key, payload)
       IN  /\ opened.ok
           /\ from_slice(opened.val).ok
           /\ Unwrap(from_slice(opened.val).val).msg_type = "VerificationToken"
           /\ ~verify_token(pv.room_key,
                  token_from_text(Unwrap(from_slice(opened.val).val).text),
                  pv.room_name)

\* ev1 is sent before ev2.
UiBefore(evs, ev1, ev2) ==
    \E i, j \in 1..Len(evs) : i < j /\ evs[i] = ev1 /\ evs[j] = ev2

\* C5: on the deny transition the controller issues an Unsubscribe for the
\* topic it subscribed to for this join, emits AccessDenied and then
\* ShowMainMenu, and ends in MENU.
C5_DenyUnsubscribes ==
    [][last' = "MessageReceived" /\ pending_verify # None =>
       \A payload \in {p \in Payloads : DenyCase(p)}, topic \in Topics :
          MessageReceivedOf(topic, payload) =>
             /\ HasCmd(net_cmds',
                   Unsubscribe(topic_for_room(Unwrap(pending_verify).room_name)))
             /\ UiBefore(ui_events', AccessDenied, ShowMainMenu)
             /\ room' = None /\ pending_verify' = None]_vars

\* C6: a controller in JOINING that is not interrupted (no token, LeaveRoom,
\* CreateRoom, JoinRoom or Quit) eventually leaves JOINING through the
\* timeout, whatever else keeps arriving.  A newer JoinRoom restarts the
\* stopwatch; every other interruption removes PendingVerify or stops the loop.
C6_TimeoutEventually ==
    (pending_verify # None /\ since_join > 0)
        ~> (pending_verify = None \/ since_join = 0 \/ ~running)

\* C7: a tick that fires less than 5 seconds after JoinRoom was handled
\* leaves PendingVerify in place, installs no room and emits nothing.
C7_NoEarlyTimeout ==
    [][(Tick /\ pending_verify # None /\ since_join < VerifyMillis) =>
          /\ pending_verify' = pending_verify
          /\ room' = None /\ room_key' = None
          /\ ui_events' = <<>> /\ net_cmds' = <<>>]_vars

\* A tick has fired in JOINING before the deadline.
C7_Witness ==
    /\ last = "Tick"
    /\ sleep = TickMillis
    /\ pending_verify # None
    /\ since_join > 0 /\ since_join < VerifyMillis

\* C8: LeaveRoom in IN-ROOM issues exactly one Unsubscribe, for the topic of
\* the room, leaves key, room, pending verify, logger and peer table
\* absent/empty and emits ShowMainMenu.
C8_LeaveClears ==
    [][(LeaveRoom /\ room # None) =>
          /\ CountCmdKind(net_cmds', "Unsubscribe") = 1
          /\ HasCmd(net_cmds', Unsubscribe(Unwrap(room).topic))
          /\ room' = None /\ room_key' = None /\ pending_verify' = None
          /\ logger' = None /\ DOMAIN peers' = {}
          /\ HasUi(ui_events', ShowMainMenu)]_vars

\* LeaveRoom has been handled in a room whose peer table may have been filled.
C8_Witness ==
    /\ last = "LeaveRoom"
    /\ HasCmd(net_cmds, Unsubscribe(topic_for_room(<<"a">>)))
    /\ HasUi(ui_events, ShowMainMenu)
    /\ room = None /\ logger = None /\ DOMAIN peers = {}

\* The room code of ev decodes to (name, the local peer id, some address
\* the controller knows or the empty address).
CodeOf(ev, name, addrs) ==
    /\ decode(ev.code).ok
    /\ decode(ev.code).val.room_name = name
    /\ decode(ev.code).val.peer_id = identity.peer_id
    /\ \/ decode(ev.code).val.addr = <<>>
       \/ Contains(addrs, decode(ev.code).val.addr)

\* C9: a successful CreateRoom{name, password} handled in MENU subscribes to
\* "/chatapp/v1/rooms/" ++ name, leaves the controller IN-ROOM with
\* RoomState.name = name and peer_count = 1, and emits RoomCreated{name, code}
\* whose code decodes to name, the creator's peer id and its address.
C9_Create ==
    [][last' = "CreateRoom" /\ InMenu =>
       \A name \in Names, password \in Passwords :
          CreateRoomOf(name, password, TRUE, TRUE) =>
             /\ HasCmd(net_cmds', Subscribe(<<"/chatapp/v1/rooms/">> \o name))
             /\ room' # None /\ pending_verify' = None
             /\ Unwrap(room').name = name
             /\ Unwrap(room').peer_count = 1
             /\ \E i \in 1..Len(ui_events') :
                   /\ ui_events'[i].ev = "RoomCreated"
                   /\ ui_events'[i].name = name
                   /\ CodeOf(ui_events'[i], name, listen_addrs)]_vars

\* A room has been created.
C9_Witness ==
    /\ last = "CreateRoom"
    /\ HasUiKind(ui_events, "RoomCreated")
    /\ room # None
    /\ Unwrap(room).peer_count = 1

\* The addr field of the room code of the RoomCreated event just emitted.
CreatedAddrs ==
    { decode(ui_events[i].code).val.addr :
        i \in {j \in 1..Len(ui_events) : ui_events[j].ev = "RoomCreated"} }

ExternalReports == {i \in 1..Len(addr_log) : addr_log[i].kind = "NewExternalAddr"}

\* C10 as stated: the addr of the room code is the first address the driver
\* reported, in the order the reports were received, and is empty iff no
\* address was reported.
C10_FirstReported ==
    \A a \in CreatedAddrs :
        a = IF addr_log = <<>> THEN <<>> ELSE addr_log[1].addr

\* C10 amended: the addr of the room code is the address of the latest
\* NewExternalAddr report that brought a new address, if there is one,
\* otherwise the first address reported by ListeningOn; it is empty iff no
\* address was reported.
C10_FrontOfList ==
    \A a \in CreatedAddrs :
        /\ a = IF addr_log = <<>> THEN <<>>
               ELSE IF ExternalReports # {}
               THEN addr_log[CHOOSE i \in ExternalReports :
                                \A j \in ExternalReports : j <= i].addr
               ELSE addr_log[1].addr
        /\ a = <<>> <=> addr_log = <<>>

\* A room was created after a listen address and then a new external
\* address had been reported.
C10_Witness ==
    /\ last = "CreateRoom"
    /\ CreatedAddrs # {}
    /\ Len(addr_log) = 2
    /\ addr_log[1].kind = "ListeningOn"
    /\ addr_log[2].kind = "NewExternalAddr"

\* The room codes a user can type that decode.
DecodableCodes == {c \in Codes : decode(c).ok}

C12_BadCode ==
    running =>
       \A code \in Codes \ DecodableCodes, password \in Passwords,
          kdf_ok \in BOOLEAN, io_ok \in BOOLEAN :
          LET st == AfterCli(join_room(Ctl, code, password, kdf_ok, io_ok))
          IN  /\ HasUiKind(st.ui, "Error")
              /\ CountCmdKind(st.net, "Subscribe") = 0
              /\ CountCmdKind(st.net, "Dial") = 0
              /\ st.pending_verify = None

\* A JoinRoom with a code that does not decode has been refused.
C12_Witness ==
    /\ last = "JoinRoom"
    /\ HasUi(ui_events, Error(<<"invalid room code">>))
    /\ pending_verify = None

\* The controller state: MENU / JOINING / IN-ROOM with the contents of room,
\* key and pending verify.
CtlState == << room, room_key, pending_verify >>

\* C13: when key derivation fails in CreateRoom or JoinRoom, or
\* serialization / encryption fails in SendMessage, UiEvent::Error is
\* emitted and the controller state is the same after the command as before.
C13_FailureKeepsState ==
    [][last' \in {"CreateRoom", "JoinRoom", "SendMessage"} =>
       /\ \A name \in Names, password \in Passwords, io_ok \in BOOLEAN :
             CreateRoomOf(name, password, FALSE, io_ok) =>
                HasUiKind(ui_events', "Error") /\ CtlState' = CtlState
       /\ \A code \in DecodableCodes, password \in Passwords, io_ok \in BOOLEAN :
             JoinRoomOf(code, password, FALSE, io_ok) =>
                HasUiKind(ui_events', "Error") /\ CtlState' = CtlState
       /\ \A text \in Texts, nonce \in Nonces :
             SendMessageOf(text, nonce, FALSE) =>
                HasUiKind(ui_events', "Error") /\ CtlState' = CtlState]_vars

Publishes(cmds) == {i \in 1..Len(cmds) : cmds[i].cmd = "Publish"}
ChatMessages(evs) ==
    {i \in 1..Len(evs) : evs[i].ev = "NewMessage" /\ ~evs[i].msg.is_system}

\* C16: SendMessage(text) handled in IN-ROOM (serialization and encryption
\* succeed) produces exactly one Publish, on the topic of the room, whose
\* payload opens under the room key to a Chat WireMessage with the sender's
\* nickname, discriminator and the text, and exactly one NewMessage, with
\* the controller's display name as sender and the same text.
C16_Send ==
    (running /\ room # None /\ room_key # None) =>
       \A text \in SendTexts, nonce \in Nonces :
          LET st == AfterCli(send_message(Ctl, text, nonce, TRUE))
              news == {i \in 1..Len(st.ui) : st.ui[i].ev = "NewMessage"}
          IN  /\ Cardinality(Publishes(st.net)) = 1
              /\ \A i \in Publishes(st.net) :
                    /\ st.net[i].topic = Unwrap(room).topic
                    /\ IsSealedWire(Unwrap(room_key), st.net[i].data)
                    /\ Unwrap(from_slice(decrypt(Unwrap(room_key),
                                                 st.net[i].data).val).val)
                          = WireMessage("Chat", identity.nickname,
                                        identity.discriminator, text)
              /\ Cardinality(news) = 1
              /\ \A i \in news :
                    st.ui[i].msg = DisplayMessage_chat(display_name(identity), text)

\* A message has been sent in a room.
C16_Witness ==
    /\ last = "SendMessage"
    /\ room # None
    /\ Cardinality(Publishes(net_cmds)) = 1
    /\ HasUi(ui_events, NewMessage(DisplayMessage_chat(display_name(identity),
                                                        StrText(<<"h">>))))

\* Payloads that carry a Chat message with the local nickname and
\* discriminator.
OwnChats ==
    {p \in Payloads :
        /\ p.pt.fmt = "json"
        /\ Unwrap(p.pt.wire).msg_type = "Chat"
        /\ Unwrap(p.pt.wire).sender_nick = identity.nickname
        /\ Unwrap(p.pt.wire).sender_disc = identity.discriminator}

\* C17: a SendMessage handled in IN-ROOM shows exactly one chat NewMessage,
\* and delivering the publication back (any number of times, on any topic)
\* shows nothing more: an inbound Chat message with the local nickname and
\* discriminator produces no UI event and no peer-table entry.
C17_EchoSuppressed ==
    running =>
       /\ \A topic \in Topics, payload \in OwnChats :
             LET st == handle_message(Ctl, topic, payload)
             IN  st.ui = <<>> /\ st.peers = peers
       /\ (room # None /\ room_key # None) =>
             \A text \in SendTexts, nonce \in Nonces :
                LET sent == AfterCli(send_message(Ctl, text, nonce, TRUE))
                    back == [sent EXCEPT !.net = <<>>, !.ui = <<>>]
                IN  /\ Cardinality(ChatMessages(sent.ui)) = 1
                    /\ \A i \in Publishes(sent.net) :
                          LET st == handle_message(back, sent.net[i].topic,
                                                   sent.net[i].data)
                          IN  st.ui = <<>> /\ st.peers = peers

\* A message has been received, and shown nothing, in a room whose key
\* opens a Chat message of our own.
C17_Witness ==
    /\ last = "MessageReceived"
    /\ room # None /\ room_key # None
    /\ \E payload \in OwnChats : decrypt(Unwrap(room_key), payload).ok
    /\ ui_events = <<>>
    /\ DOMAIN peers = {}

\* C18: PeerSubscribed for the topic of the current room, handled in
\* IN-ROOM, causes exactly one Publish, on that topic, of a
\* VerificationToken WireMessage whose token verifies under the active key
\* for the room name, and adds one to peer_count; PeerSubscribed handled in
\* MENU or JOINING, or for another topic, publishes nothing and leaves
\* peer_count alone.
C18_PeerSubscribed ==
    running =>
       \A topic \in Topics, n1 \in Nonces, n2 \in Nonces :
          LET st == PeerSubscribed_event(Ctl, topic, n1, n2)
          IN  IF room # None /\ room_key # None /\ topic = Unwrap(room).topic
              THEN /\ Cardinality(Publishes(st.net)) = 1
                   /\ \A i \in Publishes(st.net) :
                         /\ st.net[i].topic = topic
                         /\ IsSealedWire(Unwrap(room_key), st.net[i].data)
                         /\ LET wire == Unwrap(from_slice(decrypt(Unwrap(room_key),
                                                     st.net[i].data).val).val)
                            IN  /\ wire.msg_type = "VerificationToken"
                                /\ verify_token(Unwrap(room_key),
                                                token_from_text(wire.text),
                                                Unwrap(room).name)
                   /\ Unwrap(st.room).peer_count = Unwrap(room).peer_count + 1
              ELSE st.net = <<>> /\ st.room = room

\* A peer has subscribed to the topic of the room: a token was published
\* and the peer is counted.
C18_Witness ==
    /\ last = "PeerSubscribed"
    /\ room # None
    /\ Cardinality(Publishes(net_cmds)) = 1
    /\ Unwrap(room).peer_count = 2

\* C19: a PeerDisconnected(p) handled in the room right after the
\* PeerSubscribed of p on the topic of the room was counted takes one off
\* peer_count again, and peer_count never goes below zero.
C19_DisconnectDecrements ==
    [][(last = "PeerSubscribed" /\ room # None /\ Publishes(net_cmds) # {}) =>
          \A p \in PeerIds :
             PeerDisconnectedOf(p) =>
                /\ room' # None
                /\ Unwrap(room').peer_count = Unwrap(room).peer_count - 1
                /\ Unwrap(room').peer_count >= 0]_vars

\* C14: when a handler sends a NetworkCommand after the driver has stopped
\* (the send fails: the channel is closed), the loop of run() ends with that
\* iteration.
C14_ClosedChannelStops ==
    [][(~driver_up /\ ~Advance /\ net_cmds' # <<>>) => ~running']_vars

\* C15: once the Interface has sent Quit the loop of run() exits; it exits
\* only when Quit is the oldest command in the channel (the commands sent
\* before it have been received), and after it has exited the controller
\* handles nothing and emits nothing.
C15_QuitExits ==
    /\ QuitSent ~> ~running
    /\ [][(running /\ ~running') =>
             (cli_queue # <<>> /\ Head(cli_queue).cmd = "Quit")]_vars
    /\ [][~running =>
             UNCHANGED << room, room_key, logger, peers, listen_addrs,
                          pending_verify, net_cmds, ui_events, last, running >>]_vars

\* The loop has exited on a Quit that was sent behind another command.
C15_Witness ==
    /\ ~running
    /\ last = "Quit"
    /\ cli_queue = <<>>
    /\ room # None

\* B is joining (pv) or has joined the room A is in, with A's password.
SameRoom(name, key) ==
    /\ room # None /\ room_key # None
    /\ name = Unwrap(room).name
    /\ key = Unwrap(room_key)

\* The event B handles next is a message that opens under A's key to a
\* WireMessage of type t sent by A.
NextFromA(t) ==
    /\ network.to_b # <<>>
    /\ Head(network.to_b).ev = "MessageReceived"
    /\ room_key # None
    /\ IsSealedWire(Unwrap(room_key), Head(network.to_b).payload)
    /\ LET wire == Unwrap(from_slice(decrypt(Unwrap(room_key),
                                Head(network.to_b).payload).val).val)
       IN  /\ wire.msg_type = t
           /\ wire.sender_nick = identity.nickname
           /\ wire.sender_disc = identity.discriminator

TextFromA ==
    Unwrap(from_slice(decrypt(Unwrap(room_key),
                              Head(network.to_b).payload).val).val).text

\* C20: A is IN-ROOM for (name, password) and B has issued JoinRoom with A's
\* code and the same password; when the verification token A published on
\* B's PeerSubscribed reaches B while B is still joining, B enters the room
\* by confirmation and emits RoomJoined(name); a chat message of A that
\* reaches B after that produces exactly one chat NewMessage at B, with A's
\* display name as sender and the text A sent.
C20_JoinThenChat ==
    /\ [][(PairRecvB /\ peer.pending_verify # None /\ NextFromA("VerificationToken")
            /\ SameRoom(Unwrap(peer.pending_verify).room_name,
                        Unwrap(peer.pending_verify).room_key)) =>
             /\ peer'.room # None
             /\ Unwrap(peer'.room).name = Unwrap(room).name
             /\ peer'.room_key = room_key
             /\ peer'.pending_verify = None
             /\ peer'.by = "confirm"
             /\ HasUi(peer'.ui, RoomJoined(Unwrap(room).name))]_vars
    /\ [][(PairRecvB /\ peer.by = "confirm" /\ peer.room # None
            /\ peer.room_key # None /\ NextFromA("Chat")
            /\ SameRoom(Unwrap(peer.room).name, Unwrap(peer.room_key))) =>
             /\ Cardinality(ChatMessages(peer'.ui)) = 1
             /\ \A i \in ChatMessages(peer'.ui) :
                   peer'.ui[i].msg =
                       DisplayMessage_chat(display_name(identity), TextFromA)]_vars

\* B, in the room by confirmation, has shown a chat message of A.
C20_Witness ==
    /\ peer.by = "confirm"
    /\ peer.last = "MessageReceived"
    /\ peer.room # None
    /\ HasUi(peer.ui, NewMessage(DisplayMessage_chat(display_name(identity),
                                                     StrText(<<"h", "i">>))))

\* The key B holds for the room it is joining or has joined.
PeerKey ==
    IF peer.pending_verify # None
    THEN Some(Unwrap(peer.pending_verify).room_key)
    ELSE peer.room_key

\* A is in its room and B has issued JoinRoom for it with another password.
WrongPassword ==
    /\ room # None /\ room_key # None
    /\ PeerKey # None
    /\ PeerKey # room_key

\* C21: A is IN-ROOM and B has joined the same room with a different
\* password: B never emits AccessDenied, B is IN-ROOM (with its own key)
\* only through the deadline timeout, and a message published by A that B
\* handles emits no UI event at B and leaves B's room, keys, pending verify,
\* peer table and log as they were.
C21_WrongPassword ==
    /\ [](WrongPassword =>
            /\ ~HasUi(peer.ui, AccessDenied)
            /\ peer.room # None => peer.by = "timeout")
    /\ [][(PairRecvB /\ WrongPassword
            /\ Head(network.to_b).ev = "MessageReceived") =>
             /\ peer'.ui = <<>>
             /\ peer'.room = peer.room
             /\ peer'.room_key = peer.room_key
             /\ peer'.pending_verify = peer.pending_verify
             /\ peer'.peers = peer.peers
             /\ peer'.logger = peer.logger
             /\ peer'.by = peer.by]_vars

\* B, let in by the timeout with its own key, has discarded a message of A.
C21_Witness ==
    /\ WrongPassword
    /\ peer.room # None
    /\ peer.by = "timeout"
    /\ peer.last = "MessageReceived"
    /\ peer.ui = <<>>
    /\ Unwrap(peer.room).name = Unwrap(room).name

\* The key a received payload is opened with: the pending key in JOINING,
\* the active key in IN-ROOM.
KeyInUse ==
    IF pending_verify # None THEN Some(Unwrap(pending_verify).room_key)
    ELSE IF room # None THEN room_key
    ELSE None

\* The payload does not open under k, or opens to bytes that are not a
\* WireMessage with msg_type Chat or VerificationToken.
Undecodable(k, payload) ==
    \/ ~decrypt(k, payload).ok
    \/ decrypt(k, payload).val.fmt # "json"
    \/ Unwrap(decrypt(k, payload).val.wire).msg_type
           \notin {"Chat", "VerificationToken"}

\* C22: in JOINING and in IN-ROOM, handling a MessageReceived whose payload
\* fails to decrypt under the key in use, or decrypts to something that is
\* not a WireMessage of type Chat or VerificationToken, emits no UI event,
\* issues no network command and leaves room, keys, pending verify, peer
\* table and peer_count unchanged.
C22_SilentDiscard ==
    (running /\ KeyInUse # None) =>
        \A topic \in Topics,
           payload \in {p \in Payloads : Undecodable(Unwrap(KeyInUse), p)} :
            handle_message(Ctl, topic, payload) = Ctl

\* A message has been handled and dropped in JOINING under a pending key
\* that opens none of the payloads.
C22_Witness ==
    /\ last = "MessageReceived"
    /\ pending_verify # None
    /\ \A payload \in Payloads :
          ~decrypt(Unwrap(pending_verify).room_key, payload).ok
    /\ ui_events = <<>>
    /\ net_cmds = <<>>

\* The i-th byte of the room name, read as zero past its end.
ByteAt(r, i) == IF i <= Len(r) THEN r[i] ELSE NUL

SameFirst16(r1, r2) == \A i \in 1..16 : ByteAt(r1, i) = ByteAt(r2, i)

C24_RoundTrip ==
    calc.out # None =>
        /\ calc.k2 = calc.k =>
              /\ Unwrap(calc.out).ok
              /\ Unwrap(calc.out).val = calc.m
        /\ calc.k2 # calc.k => ~Unwrap(calc.out).ok

\* The empty plaintext has been sealed and opened under the same key.
C24_Witness ==
    /\ calc.out # None
    /\ calc.m = TextBytes(<<>>)
    /\ calc.k2 = calc.k
    /\ Unwrap(calc.out) = Ok(TextBytes(<<>>))

\* C25: verify_token(k, make_verification_token(k, r), r) is true for every
\* key k and room name r, and verify_token(k2, make_verification_token(k, r),
\* r2) is false whenever k2 differs from k or r2 differs from r.
C25_TokenSound ==
    calc.out # None =>
        (Unwrap(calc.out) <=> (calc.k2 = calc.k /\ calc.r2 = calc.r))

\* A token made for one room has been rejected for another room under the
\* key that made it.
C25_Witness ==
    /\ calc.out = Some(FALSE)
    /\ calc.k2 = calc.k
    /\ calc.r = <<"a">>
    /\ calc.r2 = <<":", ":", "a">>

\* C26: for every RoomCodeData whose three fields contain no NUL character,
\* an empty addr included, decode(encode(x)) succeeds and returns the same
\* three fields.
C26_CodeRoundTrip ==
    (calc.x # None /\ calc.out # None) =>
        /\ Unwrap(calc.out).ok
        /\ Unwrap(calc.out).val = Unwrap(calc.x)

\* A code with an empty addr has been encoded and decoded again.
C26_Witness ==
    /\ calc.x = Some(RoomCodeData(<<"a", "b">>, <<"b">>, <<>>))
    /\ calc.out = Some(Ok(RoomCodeData(<<"a", "b">>, <<"b">>, <<>>)))

NulCount(s) == Cardinality({ i \in 1..Len(s) : s[i] = NUL })

\* C27: decode returns an error for every code whose Base58-decoded text
\* does not consist of exactly three NUL-separated parts: for text with
\* fewer than two NUL characters and for text with more than two.
C27_ExactlyThreeParts ==
    (calc.x = None /\ calc.out # None /\ Unwrap(calc.code).b58
        /\ NulCount(Unwrap(calc.code).raw) # 2) =>
            ~Unwrap(calc.out).ok

Range(s) == { s[i] : i \in 1..Len(s) }

\* The characters of every password a user can type.
SecretChars == UNION { Range(p) : p \in Passwords }

\* The characters a text shows (the JSON of a byte array shows none).
TextChars(text) == IF text.fmt = "str" THEN Range(text.str) ELSE {}

\* The characters a byte string holds in clear.
BytesChars(bytes) ==
    IF bytes.fmt = "text" THEN Range(bytes.text)
    ELSE IF bytes.fmt = "json"
    THEN Range(Unwrap(bytes.wire).sender_nick)
           \cup Range(Unwrap(bytes.wire).sender_disc)
           \cup TextChars(Unwrap(bytes.wire).text)
    ELSE {}

\* The characters of a network command: its strings and, for a Publish,
\* also what the frame gives to a holder of the room key.
CmdChars(c) ==
    CASE c.cmd \in {"Subscribe", "Unsubscribe"} -> Range(c.topic)
      [] c.cmd = "Dial" -> Range(c.addr)
      [] c.cmd = "Publish" -> Range(c.topic) \cup BytesChars(c.data.pt)
      [] OTHER -> {}

\* The characters of a UI event; a room code is read through Base58.
UiChars(e) ==
    CASE e.ev = "NewMessage" -> Range(e.msg.sender) \cup TextChars(e.msg.text)
      [] e.ev = "StatusUpdate" -> UNION { Range(e.room[i]) : i \in 1..Len(e.room) }
      [] e.ev = "RoomCreated" -> Range(e.name) \cup Range(e.code.raw)
      [] e.ev = "RoomJoined" -> Range(e.name)
      [] e.ev = "Error" -> Range(e.error)
      [] OTHER -> {}

\* C28: the room key and the room password never leave the controller: no
\* network command and no UI event holds a character of a password (the
\* room code of RoomCreated included), a Publish carries only a frame
\* sealed under the room key, and the commands and events of CreateRoom and JoinRoom are the
\* same whatever password was given.
C28_SecretsStayInside ==
    /\ \A i \in 1..Len(net_cmds) :
          /\ CmdChars(net_cmds[i]) \cap SecretChars = {}
          /\ net_cmds[i].cmd = "Publish" =>
                /\ net_cmds[i].data.len >= NONCE_LEN + TAG_LEN
                /\ room_key # None
                /\ net_cmds[i].data.key = Unwrap(room_key)
    /\ \A i \in 1..Len(ui_events) : UiChars(ui_events[i]) \cap SecretChars = {}
    /\ running =>
          \A p1 \in Passwords, p2 \in Passwords :
             /\ \A name \in Names :
                   LET st1 == AfterCli(create_room(Ctl, name, p1, TRUE, TRUE))
                       st2 == AfterCli(create_room(Ctl, name, p2, TRUE, TRUE))
                   IN  st1.net = st2.net /\ st1.ui = st2.ui
             /\ \A code \in Codes :
                   LET st1 == AfterCli(join_room(Ctl, code, p1, TRUE, TRUE))
                       st2 == AfterCli(join_room(Ctl, code, p2, TRUE, TRUE))
                   IN  st1.net = st2.net /\ st1.ui = st2.ui

\* A room has been created with a password and its code shown.
C28_Witness ==
    /\ last = "CreateRoom"
    /\ room_key = Some(derive(<<"p">>, <<"a">>))
    /\ \E i \in 1..Len(ui_events) :
          /\ ui_events[i].ev = "RoomCreated"
          /\ decode(ui_events[i].code).ok
    /\ HasCmd(net_cmds, Subscribe(topic_for_room(<<"a">>)))

\* The Subscribe commands of cmds.
Subscribes(cmds) == { i \in 1..Len(cmds) : cmds[i].cmd = "Subscribe" }

\* C29: CreateRoom or JoinRoom handled in IN-ROOM sends the Unsubscribe for
\* the topic of the old room first and the Subscribe for the new topic
\* after it; the net_cmd channel hands the commands to the driver in the
\* order they were sent, and the driver applies each one as it receives it;
\* so, once the driver has caught up, it subscribes to the topic of the room
\* the controller is in or is joining, also when that room has the name of
\* the room left.
C29_UnsubscribeThenSubscribe ==
    /\ []((running /\ room # None) =>
            \A password \in Passwords, io_ok \in BOOLEAN :
               /\ \A name \in Names :
                     LET st == AfterCli(create_room(Ctl, name, password, TRUE, io_ok))
                     IN  /\ st.net[1] = Unsubscribe(Unwrap(room).topic)
                         /\ Subscribes(st.net) = {2}
                         /\ st.net[2].topic = topic_for_room(name)
               /\ \A code \in GoodCodes :
                     LET st == AfterCli(join_room(Ctl, code, password, TRUE, io_ok))
                     IN  /\ st.net[1] = Unsubscribe(Unwrap(room).topic)
                         /\ Subscribes(st.net) = {Len(st.net)}
                         /\ st.net[Len(st.net)].topic =
                               topic_for_room(decode(code).val.room_name))
    /\ [][\/ net_queue' = net_queue
          \/ net_queue' = net_queue \o net_cmds'
          \/ net_queue # <<>> /\ net_queue' = Tail(net_queue)]_vars
    /\ [][DriverRecv =>
             /\ net_queue = << Head(net_queue) >> \o net_queue'
             /\ Head(net_queue).cmd = "Subscribe" =>
                   Head(net_queue).topic \in subscribed'
             /\ Head(net_queue).cmd = "Unsubscribe" =>
                   Head(net_queue).topic \notin subscribed']_vars
    /\ [](net_queue = <<>> =>
            /\ room # None => Unwrap(room).topic \in subscribed
            /\ pending_verify # None =>
                  topic_for_room(Unwrap(pending_verify).room_name)
                      \in subscribed)

\* A room has been created again under the name of the room left, and the
\* driver has applied the Unsubscribe and the Subscribe.
C29_Witness ==
    /\ last = "CreateRoom"
    /\ net_cmds = << Unsubscribe(topic_for_room(<<"a">>)),
                     Subscribe(topic_for_room(<<"a">>)) >>
    /\ net_queue = <<>>
    /\ room # None
    /\ subscribed = { topic_for_room(<<"a">>) }

\* The buffer without the spaces at its two ends.
Core(buf) ==
    IF \A i \in 1..Len(buf) : buf[i] = SPACE THEN <<>>
    ELSE LET first == CHOOSE i \in 1..Len(buf) :
                         buf[i] # SPACE /\ \A j \in 1..(i - 1) : buf[j] = SPACE
             final == CHOOSE i \in 1..Len(buf) :
                         buf[i] # SPACE /\ \A j \in (i + 1)..Len(buf) : buf[j] = SPACE
         IN  SubSeq(buf, first, final)

\* What Enter sends from the buffer typed so far.
EnterSends ==
    handle_key(calc, KeyEvent("Press", FALSE, "Enter", "")).sent

\* C30: in the chat screen, Enter sends nothing when the input is empty
\* after trimming, LeaveRoom for "/quit", ListPeers for "/peers", Help for
\* "/help" and for every other input starting with '/', and SendMessage with
\* the trimmed input otherwise; so a SendMessage never carries a text that
\* is empty or starts with '/'.
C30_ChatCommands ==
    ~calc.quit =>
        /\ Core(calc.input_buffer) = <<>> <=> EnterSends = None
        /\ Core(calc.input_buffer) # <<>> =>
              Unwrap(EnterSends) =
                 IF Core(calc.input_buffer) = << "/", "q", "u", "i", "t" >>
                 THEN CliCommand_LeaveRoom
                 ELSE IF Core(calc.input_buffer) = << "/", "p", "e", "e", "r", "s" >>
                 THEN CliCommand_ListPeers
                 ELSE IF Head(Core(calc.input_buffer)) = "/"
                 THEN CliCommand_Help
                 ELSE CliCommand_SendMessage(StrText(Core(calc.input_buffer)))
        /\ (calc.sent # None /\ Unwrap(calc.sent).cmd = "SendMessage") =>
              /\ Unwrap(calc.sent).text.str # <<>>
              /\ Head(Unwrap(calc.sent).text.str) \notin {"/", SPACE}

\* Enter has sent a typed line as a message.
C30_Witness ==
    /\ calc.sent = Some(CliCommand_SendMessage(StrText(<< "h", SPACE, "/" >>)))
    /\ calc.input_buffer = <<>>
    /\ ~calc.quit

\* C31: while JOINING, a MessageReceived on a topic other than the topic of
\* PendingVerify.room_name never emits RoomJoined or AccessDenied, whatever
\* its payload (a VerificationToken sealed under the pending key included).
C31_OnlyPendingTopic ==
    (running /\ pending_verify # None) =>
        \A topic \in Topics \ {topic_for_room(Unwrap(pending_verify).room_name)},
           payload \in Payloads :
            LET st == handle_message(Ctl, topic, payload)
            IN  /\ ~HasUiKind(st.ui, "RoomJoined")
                /\ ~HasUiKind(st.ui, "AccessDenied")

\* VerificationToken frames a member holding key k can publish with a given
\* sender: a token that verifies for room n, a token made for another room
\* and a text that is no token.
TokenFrames(k, n, sender) ==
    { encrypt(k, to_vec(WireMessage("VerificationToken", sender.nickname,
                                    sender.discriminator, text)), 0) :
        text \in { TokenText(make_verification_token(k, n, 0)),
                   TokenText(make_verification_token(k, <<"z">>, 0)),
                   StrText(<<"h">>) } }

\* handle_message discards every VerificationToken frame under the active
\* key of st, on every topic: nothing is emitted and no field changes.
DiscardsTokens(st) ==
    \A topic \in Topics, sender \in {identity, remote} :
      \A payload \in TokenFrames(Unwrap(st.room_key), Unwrap(st.room).name, sender) :
        LET out == handle_message(st, topic, payload)
        IN  /\ ~HasUiKind(out.ui, "RoomJoined")
            /\ ~HasUiKind(out.ui, "AccessDenied")
            /\ ~HasUiKind(out.ui, "NewMessage")
            /\ out.peers = st.peers
            /\ out.room = st.room
            /\ out.room_key = st.room_key
            /\ out.pending_verify = st.pending_verify

\* C32: while IN-ROOM, an inbound VerificationToken message, whether or not
\* its token verifies, emits no RoomJoined, AccessDenied or NewMessage, adds
\* no peer-table entry and leaves room, key and peer_count unchanged: at the
\* room's creator and at the participant who joined.
C32_TokenDiscardedInRoom ==
    /\ (running /\ room # None) => DiscardsTokens(Ctl)
    /\ peer.room # None => DiscardsTokens(PeerCtl)

\* The joiner entered the room by timeout, and then handled the token the
\* creator published for it: nothing was emitted.
C32_Witness ==
    /\ peer.by = "timeout"
    /\ peer.last = "MessageReceived"
    /\ peer.room # None
    /\ room # None
    /\ peer.room_key = room_key
    /\ Unwrap(peer.room).name = Unwrap(room).name
    /\ last = "PeerSubscribed"
    /\ peer.ui = <<>>
    /\ DOMAIN peer.peers = {}

\* The "<name> joined the room" system message for sender s.
JoinedMsg(s) ==
    NewMessage(DisplayMessage_system(display_name(s) \o <<" joined the room">>))

Positions(evs, e) == { i \in 1..Len(evs) : evs[i] = e }

\* Where evs holds chat messages shown under the name of s.
ChatsFrom(evs, s) ==
    { i \in 1..Len(evs) : /\ evs[i].ev = "NewMessage"
                          /\ ~evs[i].msg.is_system
                          /\ evs[i].msg.sender = display_name(s) }

\* C33: within one room session each remote sender (nick, discriminator) is
\* announced by exactly one "<name> joined the room" message, before its
\* first chat message, and never again; after a leave the peer table is
\* empty, so the next session announces the sender again.  Step by step: the
\* announcement is emitted exactly by the handler that adds the sender to
\* the peer table; a chat message of the sender is shown only in a room,
\* with the sender in the table, and after the announcement if the sender
\* was not in the table; an entry stays as long as the session lasts; the
\* table is empty outside a room and whenever a room is left or entered.
C33_AnnouncedOnce ==
    /\ [](room = None => DOMAIN peers = {})
    /\ [][Advance \/
          \A s \in Senders :
             LET k == display_name(s)
                 joined == Positions(ui_events', JoinedMsg(s))
                 chats == ChatsFrom(ui_events', s)
             IN  /\ Cardinality(joined) =
                        IF k \notin DOMAIN peers /\ k \in DOMAIN peers'
                        THEN 1 ELSE 0
                 /\ chats # {} =>
                        /\ room # None /\ room' = room
                        /\ k \in DOMAIN peers'
                        /\ Cardinality(chats) = 1
                        /\ \/ k \in DOMAIN peers
                           \/ \E j \in joined : \A i \in chats : j < i
                 /\ (k \in DOMAIN peers /\ room' # None
                        /\ ~HasUi(ui_events', ShowMainMenu))
                        => k \in DOMAIN peers'
                 /\ (room = None \/ HasUi(ui_events', ShowMainMenu))
                        => DOMAIN peers' = {}]_vars

\* The second of two participants with the same nickname has been announced
\* in a room where the first is already in the peer table.
C33_Witness ==
    /\ last = "MessageReceived"
    /\ room # None
    /\ DOMAIN peers = { display_name(remote), display_name(remote2) }
    /\ ui_events = << JoinedMsg(remote2),
                      NewMessage(DisplayMessage_chat(display_name(remote2),
                                                     StrText(<<"h">>))) >>

\* Chat frames a member holding key k can publish, as the remote participant
\* and under the identity of this controller.
ChatFrames(k) ==
    { encrypt(k, to_vec(WireMessage("Chat", s.nickname, s.discriminator,
                                    StrText(<<"h">>))), 0) :
        s \in {remote, identity} }

\* C34: while JOINING, an inbound Chat message, also one that opens under
\* the pending key, emits nothing, adds no peer-table entry and leaves the
\* controller JOINING; an inbound message installs a room only in the
\* confirm case, and a step from JOINING into a room is the confirmation by
\* a VerificationToken, the timer branch at the deadline (both complete the
\* join with RoomJoined for the pending room) or a CreateRoom command, which
\* abandons the join and emits RoomCreated.
C34_ChatIgnoredWhileJoining ==
    /\ []((running /\ pending_verify # None) =>
            \A topic \in Topics :
               /\ \A payload \in ChatFrames(Unwrap(pending_verify).room_key) :
                     handle_message(Ctl, topic, payload) = Ctl
               /\ \A payload \in Payloads :
                     LET out == handle_message(Ctl, topic, payload)
                     IN  (out.room # None \/ HasUiKind(out.ui, "RoomJoined"))
                            => ConfirmCase(payload))
    /\ [][(pending_verify # None /\ room' # None) =>
            LET pv == Unwrap(pending_verify)
            IN  \/ /\ last' = "MessageReceived"
                   /\ HasUi(ui_events', RoomJoined(pv.room_name))
                   /\ Unwrap(room').name = pv.room_name
                \/ /\ last' = "Tick"
                   /\ pv.deadline <= 0
                   /\ HasUi(ui_events', RoomJoined(pv.room_name))
                   /\ Unwrap(room').name = pv.room_name
                \/ /\ last' = "CreateRoom"
                   /\ HasUiKind(ui_events', "RoomCreated")
                   /\ ~HasUiKind(ui_events', "RoomJoined")]_vars

\* A message has been handled in JOINING under a pending key that opens the
\* chat frames of room "a", and the controller is still JOINING with
\* nothing emitted and no peer recorded.
C34_Witness ==
    /\ last = "MessageReceived"
    /\ pending_verify # None
    /\ ChatFrames(Unwrap(pending_verify).room_key) \cap Payloads # {}
    /\ Unwrap(pending_verify).room_name = <<"a">>
    /\ room = None
    /\ ui_events = <<>>
    /\ DOMAIN peers = {}

\* The topics gossipsub subscribes to once the driver has applied every
\* command that waits in the channel: a topic is held while a Subscribe for
\* it has been issued and no Unsubscribe for it has been issued since.
RECURSIVE HeldAfter(_, _)
HeldAfter(subs, cmds) ==
    IF cmds = <<>> THEN subs
    ELSE HeldAfter(handle_command(subs, Head(cmds)), Tail(cmds))

\* C35: in MENU the controller holds no subscription; in JOINING and in
\* IN-ROOM the only topic it holds is the topic of the pending or current
\* room.
C35_NoStraySubscription ==
    HeldAfter(subscribed, net_queue) =
        IF room # None THEN { Unwrap(room).topic }
        ELSE IF pending_verify # None
             THEN { topic_for_room(Unwrap(pending_verify).room_name) }
             ELSE {}

\* C36: a JoinRoom whose room code does not decode leaves the controller as
\* it was: in IN-ROOM the room, the key and the peer table stay and no
\* Unsubscribe is issued; in JOINING PendingVerify stays.
C36_BadCodeKeepsState ==
    running =>
        \A code \in BadCodes, password \in Passwords :
            LET st == AfterCli(join_room(Ctl, code, password, TRUE, TRUE))
            IN  /\ ~decode(code).ok
                /\ room # None =>
                      /\ st.room = room
                      /\ st.room_key = room_key
                      /\ st.peers = peers
                      /\ CountCmdKind(st.net, "Unsubscribe") = 0
                /\ pending_verify # None =>
                      st.pending_verify = pending_verify

\* Where evs holds an outcome of a join attempt.
Outcomes(evs) ==
    { i \in 1..Len(evs) : evs[i].ev \in {"RoomJoined", "AccessDenied"} }

\* C37: a join attempt has at most one outcome.  An attempt is open exactly
\* while PendingVerify is present: only JoinRoom installs PendingVerify (a
\* newer JoinRoom replaces it, with a fresh deadline), a handler emits at
\* most one of RoomJoined and AccessDenied, it does so only with an attempt
\* open, in the message or the timer branch, and closes the attempt in the
\* same step; LeaveRoom and CreateRoom close it with no outcome.  With no
\* attempt open, no message (a verifying token included) and no tick emits
\* an outcome.
C37_OneOutcome ==
    /\ []((running /\ pending_verify = None) =>
             /\ Outcomes(check_verify_timeout(Ctl).ui) = {}
             /\ \A topic \in Topics, payload \in Payloads :
                   Outcomes(handle_message(Ctl, topic, payload).ui) = {})
    /\ [][Advance \/
           /\ Cardinality(Outcomes(ui_events')) <= 1
           /\ Outcomes(ui_events') # {} =>
                 /\ pending_verify # None
                 /\ pending_verify' = None
                 /\ last' \in {"MessageReceived", "Tick"}
                 /\ HasUiKind(ui_events', "RoomJoined") =>
                       /\ HasUi(ui_events',
                                RoomJoined(Unwrap(pending_verify).room_name))
                       /\ room' # None
                 /\ HasUiKind(ui_events', "AccessDenied") => room' = None
           /\ pending_verify' # None =>
                 \/ pending_verify' = pending_verify
                 \/ /\ last' = "JoinRoom"
                    /\ Unwrap(pending_verify').deadline = VerifyMillis
           /\ last' \in {"LeaveRoom", "CreateRoom"} =>
                 /\ pending_verify' = None
                 /\ Outcomes(ui_events') = {}]_vars

\* A token that does not verify has given a join attempt its outcome: the
\* attempt is closed and the controller is in MENU.
C37_Witness ==
    /\ last = "MessageReceived"
    /\ Cardinality(Outcomes(ui_events)) = 1
    /\ HasUi(ui_events, AccessDenied)
    /\ pending_verify = None
    /\ room = None

\* C38: whenever the controller is IN-ROOM its peer_count is at least 1,
\* and every StatusUpdate that reports a room reports at least one peer.
C38_SelfCounted ==
    /\ room # None => Unwrap(room).peer_count >= 1
    /\ \A i \in 1..Len(ui_events) :
          (ui_events[i].ev = "StatusUpdate" /\ ui_events[i].room # None)
             => ui_events[i].peers >= 1

\* C39: a SendMessage handled in MENU or in JOINING issues no network
\* command (no Publish), shows no chat message, emits exactly
\* Error("Not in a room.") and leaves every field of the controller as it was.
C39_SendOutsideRoom ==
    (running /\ room = None) =>
        \A text \in SendTexts, nonce \in Nonces, enc_ok \in BOOLEAN :
            LET r == send_message(Ctl, text, nonce, enc_ok)
                st == AfterCli(r)
            IN  /\ ~r.quit
                /\ st.net = <<>>
                /\ st.ui = << Error(<<"Not in a room.">>) >>
                /\ [st EXCEPT !.ui = <<>>] = Ctl

\* A SendMessage has been handled while a join was pending.
C39_Witness ==
    /\ last = "SendMessage"
    /\ pending_verify # None
    /\ room = None
    /\ net_cmds = <<>>
    /\ ui_events = << Error(<<"Not in a room.">>) >>

\* C40: whenever the running Interface has received every UI event sent so
\* far and no CLI command waits, it shows the Chat screen iff the controller
\* is IN-ROOM, and then its current_room and peer_count are the name and the
\* peer_count of RoomState.
C40_InterfaceFollows ==
    (interface.running /\ ui_queue = <<>> /\ cli_queue = <<>>) =>
        /\ interface.screen = "Chat" <=> room # None
        /\ room # None =>
              /\ interface.current_room = Some(Unwrap(room).name)
              /\ interface.peer_count = Unwrap(room).peer_count

\* The Interface shows the room the controller entered when the join timed
\* out, after a peer subscribed.
C40_Witness ==
    /\ interface.running /\ ui_queue = <<>> /\ cli_queue = <<>>
    /\ interface.screen = "Chat"
    /\ last = "PeerSubscribed"
    /\ room # None
    /\ Unwrap(room).peer_count = 1
    /\ interface.peer_count = 1
    /\ interface.join_code = Some(UiCode)
    /\ interface.create_name = <<>>

====
